---- MODULE Spec2Model ----
(***************************************************************************)
(* State-machine model of the FastQTools record-processing engine:         *)
(*   - TbbProcessingPipeline::run   (src/processing/tbb_processing_pipeline.cpp) *)
(*   - ProcessingPipeline           (src/Processing/ProcessingPipeline.cpp)      *)
(*   - FqInfoBatchPool              (src/memory/batch_memory_manager.cpp)        *)
(*   - FqStatistic / FqStatisticWorker (src/statistics)                          *)
(* A stage of tbb::parallel_pipeline is one action per filter invocation;  *)
(* the parallel filter has a begin and an end step so that several         *)
(* transform bodies can be in progress at once.                            *)
(***************************************************************************)
EXTENDS Integers, Sequences, FiniteSets, TLC

\* ------------------------------------------------------------------ bounds
MaxRecords   == 2      \* longest input file, in records
MaxBatchSize == 2      \* largest configured batch_size
MaxTokens    == 3      \* largest configured max_tokens
NumThreads   == 2      \* worker threads of the TBB arena (hardware concurrency)
MaxPoolSize  == 1      \* largest configured memory_pool_size
MaxAcquires  == 3      \* acquire calls the pool's direct clients make
MaxResets    == 2      \* reset_stats calls made alongside them
MaxRuns      == 3      \* run() calls on one pipeline object
MaxRunReads  == 3      \* reads one run() counts in its performance statistics
MaxCalls     == 4      \* calls the threads make on one FqInfoBatchPool
MaxCount     == 2      \* largest count handed to expand and preallocate
MaxHandlers  == 4      \* handlers registered with one ErrorHandler
MaxRegistered == 2     \* recovery functions registered with one ErrorRecoveryHandler
MaxAttempts  == 2      \* try_recover calls on one ErrorRecoveryHandler
MaxRetries   == 2      \* largest max_attempts handed to RecoveryStrategyBuilder::retry
MaxWorkers   == 3   \* shrink_worker threads ever created on one manager
NumCallers   == 2   \* threads calling the manager's public functions
MaxMgrCalls  == 4   \* update_config calls made on one manager
MaxShrinks   == 2   \* optimize() calls counted per manager
MaxProcRuns  == 2   \* run() calls made in one process
MaxAsks      == 4      \* times a caller asks one strategy about a failing operation

\* ------------------------------------------------------- program constants
PHRED_OFFSET_SANGER == 33
MAX_QUAL            == 42
MAX_BASE_NUM        == 5
LegacyMinTokens     == 4

Threads == 1..NumThreads
NoReader == -1

\* ------------------------------------------------------------ sequences
RECURSIVE SumSeq(_)
SumSeq(s) == IF s = <<>> THEN 0 ELSE Head(s) + SumSeq(Tail(s))

Max(a, b) == IF a >= b THEN a ELSE b
Min(a, b) == IF a <= b THEN a ELSE b

\* std::string::substr(pos, n): at most n characters starting at 0-based pos
Substr(s, pos, n) == SubSeq(s, pos + 1, Min(Len(s), pos + n))

\* ------------------------------------------------------------ records
\* FqInfo: name, base, qual.  qual holds the raw quality characters (codes).
MkRead(name, base, qual) == [name |-> name, base |-> base, qual |-> qual]

ReadKinds ==
  { [base |-> <<"A", "C", "G", "T">>, qual |-> <<43, 63, 63, 43>>],
    [base |-> <<"N">>,                qual |-> <<43>>],
    [base |-> <<"T", "T">>,           qual |-> <<43, 43>>] }

\* all input files of exactly n records; the name of a record is its position
InputsOfLen(n) ==
  { [i \in 1..n |-> MkRead(i, k[i].base, k[i].qual)] : k \in [1..n -> ReadKinds] }

Inputs == UNION { InputsOfLen(n) : n \in 0..MaxRecords }

\* ------------------------------------------------------------ predicates
\* MinQualityPredicate::calculateAverageQuality, compared without division
QualSum(qual, enc) == SumSeq([i \in 1..Len(qual) |-> qual[i] - enc])

MinQualityEvaluate(p, read) ==
  IF read.qual = <<>> THEN FALSE
  ELSE QualSum(read.qual, p.quality_encoding) >= p.min_quality * Len(read.qual)

MinLengthEvaluate(p, read) == Len(read.base) >= p.min_length

Evaluate(p, read) ==
  IF p.kind = "MinQuality" THEN MinQualityEvaluate(p, read)
  ELSE MinLengthEvaluate(p, read)

\* index of the first predicate that rejects the read, 0 when all accept
RECURSIVE FirstReject(_, _, _)
FirstReject(preds, read, i) ==
  IF i > Len(preds) THEN 0
  ELSE IF ~Evaluate(preds[i], read) THEN i
  ELSE FirstReject(preds, read, i + 1)

PassesAll(preds, read) == FirstReject(preds, read, 1) = 0

\* ------------------------------------------------------------ mutators
isHighQuality(m, q) == q - m.quality_encoding >= m.quality_threshold

RECURSIVE trimFivePrimeFrom(_, _, _)
trimFivePrimeFrom(m, qual, i) ==
  IF i >= Len(qual) THEN Len(qual)
  ELSE IF isHighQuality(m, qual[i + 1]) THEN i
  ELSE trimFivePrimeFrom(m, qual, i + 1)

trimFivePrime(m, qual) == trimFivePrimeFrom(m, qual, 0)

RECURSIVE trimThreePrimeFrom(_, _, _)
trimThreePrimeFrom(m, qual, i) ==
  IF i = 0 THEN 0
  ELSE IF isHighQuality(m, qual[i]) THEN i
  ELSE trimThreePrimeFrom(m, qual, i - 1)

trimThreePrime(m, qual) == trimThreePrimeFrom(m, qual, Len(qual))

\* quality_trimmer::process: result flag and the read as left behind
QualityTrimmerProcess(m, read) ==
  IF read.base = <<>> \/ read.qual = <<>> THEN [ok |-> FALSE, read |-> read]
  ELSE IF Len(read.base) # Len(read.qual) THEN [ok |-> FALSE, read |-> read]
  ELSE
    LET original_length == Len(read.base)
        start_pos == IF m.mode \in {"Both", "FivePrime"}
                     THEN trimFivePrime(m, read.qual) ELSE 0
        end_pos   == IF m.mode \in {"Both", "ThreePrime"}
                     THEN trimThreePrime(m, read.qual) ELSE original_length
    IN IF end_pos <= start_pos \/ (end_pos - start_pos) < m.min_length
       THEN [ok |-> TRUE, read |-> [read EXCEPT !.base = <<>>, !.qual = <<>>]]
       ELSE IF start_pos > 0 \/ end_pos < original_length
       THEN [ok |-> TRUE,
             read |-> [read EXCEPT !.base = Substr(read.base, start_pos, end_pos - start_pos),
                                   !.qual = Substr(read.qual, start_pos, end_pos - start_pos)]]
       ELSE [ok |-> TRUE, read |-> read]

\* LengthTrimmer::process
LengthTrimmerProcess(m, read) ==
  IF read.base = <<>> THEN [ok |-> FALSE, read |-> read]
  ELSE
    LET original_length == Len(read.base)
        over == original_length > m.target_length
        new_length == IF ~over THEN original_length
                      ELSE IF m.strategy \in {"FixedLength", "MaxLength"} THEN m.target_length
                      ELSE original_length - m.target_length
        start_pos == IF over /\ m.strategy = "FromStart" THEN m.target_length ELSE 0
    IN IF new_length # original_length \/ start_pos > 0
       THEN [ok |-> TRUE,
             read |-> [read EXCEPT !.base = Substr(read.base, start_pos, new_length),
                                   !.qual = IF read.qual # <<>>
                                            THEN Substr(read.qual, start_pos, new_length)
                                            ELSE read.qual]]
       ELSE [ok |-> TRUE, read |-> read]

Process(m, read) ==
  IF m.kind = "QualityTrimmer" THEN QualityTrimmerProcess(m, read)
  ELSE LengthTrimmerProcess(m, read)

\* for (mutator : m_mutators) mutator->process(read);  the bool result is dropped
RECURSIVE ApplyMutators(_, _, _)
ApplyMutators(muts, read, i) ==
  IF i > Len(muts) THEN read
  ELSE ApplyMutators(muts, Process(muts[i], read).read, i + 1)

\* some mutator of the chain returns false on the read as the chain hands it on
RECURSIVE MutatorFails(_, _, _)
MutatorFails(muts, read, i) ==
  IF i > Len(muts) THEN FALSE
  ELSE \/ ~Process(muts[i], read).ok
       \/ MutatorFails(muts, Process(muts[i], read).read, i + 1)

\* ------------------------------------------------------------ chains
MinQ20   == [kind |-> "MinQuality", min_quality |-> 20, quality_encoding |-> PHRED_OFFSET_SANGER]
MinLen2  == [kind |-> "MinLength", min_length |-> 2]
QTrim    == [kind |-> "QualityTrimmer", quality_threshold |-> 20, min_length |-> 1,
             mode |-> "Both", quality_encoding |-> PHRED_OFFSET_SANGER]
LTrim    == [kind |-> "LengthTrimmer", target_length |-> 1, strategy |-> "FromEnd"]

Chains ==
  { [predicates |-> <<MinLen2, MinQ20>>, mutators |-> <<QTrim, LTrim>>],
    [predicates |-> <<MinLen2>>,         mutators |-> <<QTrim, LTrim>>] }

\* ------------------------------------------------------------ transform
\* variant of the filter body: the mutators run first and the predicates then
\* judge the mutated record
RECURSIVE ProcessReads_MutateFirst(_, _, _, _)
ProcessReads_MutateFirst(preds, muts, reads, i) ==
  IF i > Len(reads) THEN <<>>
  ELSE LET m == ApplyMutators(muts, reads[i], 1)
       IN IF PassesAll(preds, m)
          THEN <<m>> \o ProcessReads_MutateFirst(preds, muts, reads, i + 1)
          ELSE ProcessReads_MutateFirst(preds, muts, reads, i + 1)

\* variant of the filter body: a mutator failure ends the work on the batch,
\* the reads after the failing one are lost
RECURSIVE ProcessReads_StopOnFailure(_, _, _, _)
ProcessReads_StopOnFailure(preds, muts, reads, i) ==
  IF i > Len(reads) THEN <<>>
  ELSE IF PassesAll(preds, reads[i])
       THEN IF MutatorFails(muts, reads[i], 1)
            THEN <<ApplyMutators(muts, reads[i], 1)>>
            ELSE <<ApplyMutators(muts, reads[i], 1)>>
                 \o ProcessReads_StopOnFailure(preds, muts, reads, i + 1)
       ELSE ProcessReads_StopOnFailure(preds, muts, reads, i + 1)

\* Body of the processing filter for one batch: survivors in input order and
\* the per-batch counters (tbb_processing_pipeline.cpp 201-226).
RECURSIVE ProcessReads(_, _, _, _)
ProcessReads(preds, muts, reads, i) ==
  IF i > Len(reads) THEN <<>>
  ELSE IF PassesAll(preds, reads[i])
       THEN <<ApplyMutators(muts, reads[i], 1)>> \o ProcessReads(preds, muts, reads, i + 1)
       ELSE ProcessReads(preds, muts, reads, i + 1)

\* The calls the filter body makes on one read, in the order it makes them.
\* variant of the predicate loop without the break
RECURSIVE EvalCalls_NoBreak(_, _, _)
EvalCalls_NoBreak(preds, read, k) ==
  IF k > Len(preds) THEN <<>>
  ELSE <<[op |-> "evaluate", ord |-> k, arg |-> read]>>
       \o EvalCalls_NoBreak(preds, read, k + 1)

\* for (predicate : m_predicates) if (!predicate->evaluate(read)) {...; break;}
RECURSIVE EvalCalls(_, _, _)
EvalCalls(preds, read, k) ==
  IF k > Len(preds) THEN <<>>
  ELSE <<[op |-> "evaluate", ord |-> k, arg |-> read]>>
       \o (IF Evaluate(preds[k], read) THEN EvalCalls(preds, read, k + 1) ELSE <<>>)

\* for (mutator : m_mutators) mutator->process(read);
RECURSIVE MutCalls(_, _, _)
MutCalls(muts, read, k) ==
  IF k > Len(muts) THEN <<>>
  ELSE <<[op |-> "process", ord |-> k, arg |-> read]>>
       \o MutCalls(muts, Process(muts[k], read).read, k + 1)

\* variant of the loop body: the mutated read is judged by the predicates again
ReadCalls_Retest(preds, muts, read) ==
  EvalCalls(preds, read, 1)
  \o (IF PassesAll(preds, read)
      THEN MutCalls(muts, read, 1) \o EvalCalls(preds, ApplyMutators(muts, read, 1), 1)
      ELSE <<>>)

\* one iteration of for (auto& read : batch->reads)
ReadCalls(preds, muts, read) ==
  EvalCalls(preds, read, 1)
  \o (IF PassesAll(preds, read) THEN MutCalls(muts, read, 1) ELSE <<>>)

BatchCalls(preds, muts, reads) ==
  {ReadCalls(preds, muts, reads[i]) : i \in 1..Len(reads)}

NumRejected(preds, reads) == Cardinality({i \in 1..Len(reads) : ~PassesAll(preds, reads[i])})

TbbBatchStats(preds, muts, reads) ==
  LET passed == Len(reads) - NumRejected(preds, reads)
  IN [total_reads    |-> Len(reads),
      passed_reads   |-> passed,
      filtered_reads |-> NumRejected(preds, reads),
      modified_reads |-> passed * Len(muts),
      error_reads    |-> 0]

\* ProcessingPipeline (legacy): only total_reads and passed_reads are counted
LegacyBatchStats(preds, muts, reads) ==
  [total_reads    |-> Len(reads),
   passed_reads   |-> Len(reads) - NumRejected(preds, reads),
   filtered_reads |-> 0,
   modified_reads |-> 0,
   error_reads    |-> 0]

ZeroStats == [total_reads |-> 0, passed_reads |-> 0, filtered_reads |-> 0,
              modified_reads |-> 0, error_reads |-> 0]

AddStats(a, b) ==
  [total_reads    |-> a.total_reads + b.total_reads,
   passed_reads   |-> a.passed_reads + b.passed_reads,
   filtered_reads |-> a.filtered_reads + b.filtered_reads,
   modified_reads |-> a.modified_reads + b.modified_reads,
   error_reads    |-> a.error_reads + b.error_reads]

\* ------------------------------------------------------------ batch pool
\* FqInfoBatchPool(initial_size, max_size) with preallocate(initial_size)
NewPool(initial_size, max_size) ==
  [m_pool            |-> Min(initial_size, max_size),
   m_max_size        |-> max_size,
   m_active_count    |-> 0,
   m_total_allocated |-> Min(initial_size, max_size),
   m_total_freed     |-> 0,
   m_hit_count       |-> 0,
   m_miss_count      |-> 0]

\* FqInfoBatchPool::acquire
Acquire(p) ==
  IF p.m_pool > 0
  THEN [p EXCEPT !.m_pool = @ - 1, !.m_active_count = @ + 1, !.m_hit_count = @ + 1]
  ELSE [p EXCEPT !.m_miss_count = @ + 1, !.m_active_count = @ + 1,
                 !.m_total_allocated = @ + 1]

\* FqInfoBatchPool::release of a non-null batch
Release(p) ==
  IF p.m_pool < p.m_max_size
  THEN [p EXCEPT !.m_pool = @ + 1, !.m_active_count = @ - 1, !.m_total_freed = @ + 1]
  ELSE [p EXCEPT !.m_active_count = @ - 1, !.m_total_freed = @ + 1]

\* TbbProcessingPipeline::initialize_memory_manager
PipelinePool(memory_pool_size) == NewPool(memory_pool_size, memory_pool_size * 2)

\* ------------------------------------------------------------ source / sink
\* FastQReader::read(batch, batch_size): the next records of the file, at most
\* batch_size of them, from the reader's own position.
ReadChunk(file, pos, batch_size) == SubSeq(file, pos + 1, Min(Len(file), pos + batch_size))

\* ------------------------------------------------------------ statistics
\* FqStatisticResult as default-constructed
ZeroResult == [n_read |-> 0, read_length |-> 0, n_pos_qual |-> <<>>, n_pos_base |-> <<>>]

\* the switch of FqStatisticWorker::stat: A, C, G, T, and N or anything else
BaseIndex(ch) ==
  IF ch = "A" THEN 0 ELSE IF ch = "C" THEN 1 ELSE IF ch = "G" THEN 2
  ELSE IF ch = "T" THEN 3 ELSE MAX_BASE_NUM - 1

\* FqStatisticWorker::stat.  A read shorter than the first read of its batch is
\* indexed past its end, and a quality outside [m_qual_offset, m_qual_offset +
\* MAX_QUAL) indexes a row of n_pos_qual outside its MAX_QUAL columns; the counts
\* below are the outcome in which those stray increments miss the tables.
stat(reads, qual_offset) ==
  IF reads = <<>> THEN ZeroResult
  ELSE LET read_length == Len(reads[1].base)
       IN [n_read      |-> Len(reads),
           read_length |-> read_length,
           n_pos_qual  |-> [i \in 1..read_length |-> [q \in 0..(MAX_QUAL - 1) |->
                              Cardinality({r \in 1..Len(reads) :
                                             /\ i <= Len(reads[r].qual)
                                             /\ reads[r].qual[i] - qual_offset = q})]],
           n_pos_base  |-> [i \in 1..read_length |-> [b \in 0..(MAX_BASE_NUM - 1) |->
                              Cardinality({r \in 1..Len(reads) :
                                             /\ i <= Len(reads[r].base)
                                             /\ BaseIndex(reads[r].base[i]) = b})]]]

\* the batch holds a read shorter than its first read: stat indexes that read's
\* base and qual strings past their end
ReadsPastEnd(reads) ==
  \E r \in 1..Len(reads) : Len(reads[r].base) < Len(reads[1].base)

\* the batch holds a quality for which qual[i] - m_qual_offset is no column of
\* n_pos_qual[i]
QualOutsideTable(reads, qual_offset) ==
  \E r \in 1..Len(reads) :
     \E i \in 1..Min(Len(reads[1].base), Len(reads[r].qual)) :
        reads[r].qual[i] - qual_offset \notin 0..(MAX_QUAL - 1)

\* FqStatisticResult::operator+=
PlusEq(a, b) == [a EXCEPT !.n_read = @ + b.n_read]

\* FqStatistic::writeResult, the header counts of the report; nothing is written
\* when n_read * read_length is 0
writeResult(result) ==
  LET n_base == result.n_read * result.read_length
      col(b) == SumSeq([i \in 1..result.read_length |-> result.n_pos_base[i][b]])
  IN IF n_base = 0 THEN <<>>
     ELSE <<[ReadNum |-> result.n_read, ReadLength |-> result.read_length,
             BaseCount |-> n_base,
             A |-> col(0), C |-> col(1), G |-> col(2), T |-> col(3), N |-> col(4)]>>

\* ------------------------------------------------------------ state
VARIABLES
  cfg,          \* pipeline configuration, m_predicates, m_mutators (fixed during run)
  input,        \* the records of the file at m_input_path
  reader,       \* thread_local FastQReader of each thread: records consumed, or NoReader
  writer,       \* thread_local FastQWriter of each thread: opened or not
  seqPos,       \* the FastQReader local to one run (processSequential,
                \* FqStatistic::run): records consumed
  output,       \* records handed to FastQWriter::write, in call order
  flight,       \* items inside tbb::parallel_pipeline, oldest first
  fc_stopped,   \* flow_control::stop() was called
  exc,          \* the exception captured by the pipeline's task group, or "none"
  pc,           \* where run() is
  pool,         \* FqInfoBatchPool of m_memory_manager
  ctr,          \* total_reads_processed, total_reads_passed (atomics local to run)
  final_stats,  \* the ProcessingStatistics run() builds
  final_result, \* the FqStatisticResult FqStatistic::run aggregates into
  parsed,       \* history: the batches the input filter returned, in order
  sinkLog,      \* history: sequence numbers of the batches the output filter received
  started,      \* history: sequence numbers of the batches a transform body took
  finished,     \* history: sequence numbers of the batches a transform body completed
  released,     \* history: sequence numbers of the batches given back by release_batch
  errors,       \* history: the exceptions thrown by filter bodies, in order
  calls,        \* history: the evaluate and process calls made on records
  op,           \* per thread: where it is inside FqInfoBatchPool::acquire / release
  held,         \* per thread: batches acquired and not yet released
  rst,          \* stores FqInfoBatchPool::reset_stats has done, 0 when not running
  budget,       \* acquire and reset_stats calls the pool's clients still make
  acquire_calls,\* history: acquire calls entered since the last reset_stats returned
  overlap,      \* history: the last reset_stats ran while an acquire was in progress
  m_stats,      \* PerformanceStats of the pipeline object: total_batches, total_reads
  run_no,       \* run() calls made on the pipeline object so far
  run_reads,    \* history: reads the input filter of the current run() has counted
  m_mutex,      \* FqInfoBatchPool::m_mutex: the thread holding it, 0 when free
  m_stats_mutex,\* FqInfoBatchPool::m_stats_mutex: the thread holding it, 0 when free
  eh,           \* an ErrorHandler: m_handlers, and what its last handle_error call did
  rec,          \* an ErrorRecoveryHandler: its handlers, its RecoveryStats, its last call
  strat,        \* a RecoveryStrategyBuilder, the strategy built from it and its answers
  mgr,          \* a BatchMemoryManager: m_config, m_shrink_thread, m_stop_shrinking,
                \* the shrink_worker threads and the callers of its public functions
  proc          \* a process making several run() calls: the thread_local readers and
                \* writers of its threads, the files, the current run

cfgv  == <<cfg, input>>
iov   == <<reader, writer, seqPos, output>>
pipev == <<flight, fc_stopped, exc>>
statv == <<ctr, final_stats, final_result>>
histv == <<parsed, sinkLog, started, finished, released>>
logv  == <<errors, calls>>
clientv == <<op, held, rst, budget, acquire_calls, overlap>>
perfv == <<m_stats, run_no, run_reads>>
extv  == <<m_mutex, m_stats_mutex, eh, rec, strat, mgr, proc>>
vars  == <<cfgv, iov, pipev, statv, histv, logv, clientv, perfv, extv, pc, pool>>
\* the pipeline, its pool and the pool's direct clients
basev == <<cfgv, iov, pipev, statv, histv, logv, clientv, perfv, pc, pool>>

ConfigsOf(impl, tokens) ==
  { [impl |-> impl, batch_size |-> b, max_tokens |-> k, thread_count |-> w,
     memory_pool_size |-> m, enable_memory_pool |-> TRUE, injected |-> FALSE,
     predicates |-> c.predicates, mutators |-> c.mutators] :
      b \in 1..MaxBatchSize, k \in tokens, w \in 1..NumThreads,
      m \in 1..MaxPoolSize, c \in Chains }

\* TbbProcessingPipeline::validate_config: the constructor throws unless this holds
validate_config(c) == ~(c.max_tokens < 1) /\ ~(c.batch_size < 1)

\* the configurations a TbbProcessingPipeline can be constructed with, under the
\* defaults enable_memory_pool = true and memory_manager = nullptr
Configs == { c \in ConfigsOf("tbb", 0..MaxTokens) : validate_config(c) }

\* ProcessingPipeline has no max_tokens and no pool of its own
LegacyConfigs == ConfigsOf("legacy", {0})

\* the same configurations with enable_memory_pool = false; `injected` tells
\* whether the constructor was handed a BatchMemoryManager
NoPoolConfigs ==
  { [c EXCEPT !.enable_memory_pool = FALSE, !.injected = i] : c \in Configs, i \in BOOLEAN }

\* TbbProcessingPipeline::initialize_memory_manager: what m_memory_manager holds
\* after construction
initialize_memory_manager(c) ==
  IF c.injected THEN "injected"
  ELSE IF c.enable_memory_pool THEN "global"
  ELSE "null"

\* the input filter can call through m_memory_manager
HasManager(c) == c.impl # "tbb" \/ initialize_memory_manager(c) # "null"

\* variant of the token limit: one more item than configured is admitted
TokenLimit_OneMore(c) ==
  IF c.impl = "tbb" THEN c.max_tokens + 1
  ELSE IF c.impl = "stat" THEN c.thread_num + 1
  ELSE Max(LegacyMinTokens, c.thread_count * 2) + 1

\* the first argument of tbb::parallel_pipeline
TokenLimit(c) ==
  IF c.impl = "tbb" THEN c.max_tokens
  ELSE IF c.impl = "stat" THEN c.thread_num
  ELSE Max(LegacyMinTokens, c.thread_count * 2)

\* a thread executes one filter body at a time
Busy(t) == \E i \in 1..Len(flight) : flight[i].st = "running" /\ flight[i].thr = t

\* the items of a cancelled pipeline that no filter body holds are destroyed
OnlyRunning(fl) == SelectSeq(fl, LAMBDA b : b.st = "running")

RemoveAt(s, i) == SubSeq(s, 1, i - 1) \o SubSeq(s, i + 1, Len(s))

\* acquire_batch / release_batch; ProcessingPipeline uses make_unique instead
AcquireBatch(c, p) == IF c.impl = "tbb" THEN Acquire(p) ELSE p
ReleaseBatch(c, p) == IF c.impl = "tbb" THEN Release(p) ELSE p

BatchStats(c, reads) ==
  IF c.impl = "tbb" THEN TbbBatchStats(c.predicates, c.mutators, reads)
  ELSE LegacyBatchStats(c.predicates, c.mutators, reads)

\* PerformanceStats{} ; the performance statistics play no part in a single run
ZeroPerf == [total_batches |-> 0, total_reads |-> 0]

NoRuns ==
  /\ m_stats = ZeroPerf
  /\ run_no = 0
  /\ run_reads = 0

\* the pool has no client but the pipeline
\* both pool mutexes are free
NoLocks ==
  /\ m_mutex = 0
  /\ m_stats_mutex = 0

\* the error categories told apart (ErrorCategory has more, all alike)
Categories == {"IO", "Format"}

\* an ErrorHandler after construction: no handler registered, no call made
NewErrorHandler ==
  [m_handlers |-> [c \in Categories |-> <<>>],
   called     |-> FALSE,
   error      |-> "IO",
   at_call    |-> [c \in Categories |-> <<>>],
   invoked    |-> <<>>,
   result     |-> FALSE]

\* RecoveryResult
Results == {"Success", "Failed", "Skipped", "Retrying", "Aborted", "Continue"}

\* the error codes and severities told apart
Codes == {"FileNotFound", "DiskFull"}
Severities == {"Warning", "Error", "Fatal"}

\* RecoveryStats{}
ZeroRecoveryStats ==
  [total_attempts |-> 0, successful_recoveries |-> 0, failed_recoveries |-> 0,
   skipped_operations |-> 0, retry_attempts |-> 0, aborted_operations |-> 0]

\* history: the handlers, the exception and the attempts counted when the last
\* try_recover call was made
NoCall ==
  [code_handlers     |-> [c \in Codes |-> "none"],
   severity_handlers |-> [v \in Severities |-> "none"],
   default_handler   |-> "default_recovery_handler",
   ex                |-> [code |-> "FileNotFound", severity |-> "Error"],
   attempts          |-> 0]

\* ErrorRecoveryHandler::ErrorRecoveryHandler: empty maps, the built-in default
\* handler.  A registered handler is known by the result it returns; "none"
\* marks a key without entry.
NewRecoveryHandler ==
  [code_handlers     |-> [c \in Codes |-> "none"],
   severity_handlers |-> [v \in Severities |-> "none"],
   default_handler   |-> "default_recovery_handler",
   stats             |-> ZeroRecoveryStats,
   at_call           |-> NoCall,
   invoked           |-> <<>>,
   result            |-> "none"]

\* a RecoveryStrategyBuilder after construction; no strategy built yet
NewBuilder ==
  [m_strategy |-> "unset", m_max_retries |-> 0, built |-> FALSE, alive |-> TRUE,
   answers |-> <<>>, crashed |-> FALSE]

\* nothing outside the pipeline is in use
\* a BatchMemoryManager before its constructor body: m_shrink_thread is not
\* joinable (0), m_stop_shrinking{false}, no shrink_worker thread exists
NewManager ==
  [ enable_auto_shrink |-> FALSE,
    m_shrink_thread    |-> 0,
    m_stop_shrinking   |-> FALSE,
    worker             |-> [w \in 1..MaxWorkers |-> "none"],
    caller             |-> [c \in 1..NumCallers |-> [at |-> "idle", config |-> FALSE,
                                                     was |-> FALSE, made |-> 0]],
    calls              |-> 0,
    shrinks            |-> 0,
    constructed        |-> FALSE,
    terminated         |-> FALSE,
    stopped            |-> FALSE,
    restarted          |-> FALSE,
    destroying         |-> FALSE,
    destroyed          |-> FALSE ]

\* a thread that never executed a serial filter body: its thread_local reader
\* and writer are null
NoHandle == [path |-> "none", pos |-> 0]

\* a process before its first run() call
NewProcess ==
  [ reader   |-> [t \in Threads |-> NoHandle],
    writer   |-> [t \in Threads |-> NoHandle],
    running  |-> FALSE,
    run      |-> 0,
    m_input_path  |-> "none",
    m_output_path |-> "none",
    stopped  |-> FALSE,
    queue    |-> <<>>,
    read_log |-> <<>>,
    write_log |-> <<>> ]

NoExt ==
  /\ NoLocks
  /\ eh = NewErrorHandler
  /\ rec = NewRecoveryHandler
  /\ strat = NewBuilder
  /\ mgr = NewManager
  /\ proc = NewProcess

NoClients ==
  /\ op = [t \in Threads |-> "idle"]
  /\ held = [t \in Threads |-> 0]
  /\ rst = 0
  /\ budget = [acquire |-> 0, reset |-> 0]
  /\ acquire_calls = 0
  /\ overlap = FALSE

InitCommon ==
  /\ input \in Inputs
  /\ pool = PipelinePool(cfg.memory_pool_size)
  /\ reader = [t \in Threads |-> NoReader]
  /\ writer = [t \in Threads |-> FALSE]
  /\ seqPos = 0
  /\ output = <<>>
  /\ flight = <<>>
  /\ fc_stopped = FALSE
  /\ exc = "none"
  /\ pc = "idle"
  /\ ctr = [total_reads_processed |-> 0, total_reads_passed |-> 0]
  /\ final_stats = ZeroStats
  /\ final_result = ZeroResult
  /\ parsed = <<>>
  /\ sinkLog = <<>>
  /\ started = {}
  /\ finished = {}
  /\ released = {}
  /\ errors = <<>>
  /\ calls = {}
  /\ NoRuns
  /\ NoExt
  /\ NoClients

Init == cfg \in Configs /\ InitCommon

\* ---- run() entry ----------------------------------------------------------
\* TbbProcessingPipeline::run up to the call of tbb::parallel_pipeline (103-139);
\* ProcessingPipeline::run with thread_count > 1 enters processWithTBB (20-27, 71-88)
RunStart ==
  /\ pc = "idle"
  /\ cfg.impl = "tbb" \/ cfg.thread_count > 1
  /\ pc' = "running"
  /\ UNCHANGED <<cfgv, extv, perfv, clientv, logv, iov, pipev, statv, histv, pool>>

\* ---- stage 1: input filter (serial_in_order) ------------------------------
\* the read succeeds: the batch is returned into the pipeline
InputFilterRead(t) ==
  /\ pc = "running" /\ exc = "none" /\ ~fc_stopped
  /\ Len(flight) < TokenLimit(cfg)
  /\ ~Busy(t)
  /\ HasManager(cfg)
  /\ LET pos   == IF reader[t] = NoReader THEN 0 ELSE reader[t]
         chunk == ReadChunk(input, pos, cfg.batch_size)
     IN /\ chunk # <<>>
        /\ pool' = AcquireBatch(cfg, pool)
        /\ reader' = [reader EXCEPT ![t] = pos + Len(chunk)]
        /\ flight' = Append(flight, [seq |-> Len(parsed), reads |-> chunk,
                                     st |-> "parsed", thr |-> 0, stats |-> ZeroStats])
        /\ parsed' = Append(parsed, chunk)
        /\ ctr' = [ctr EXCEPT !.total_reads_processed = @ + Len(chunk)]
  /\ UNCHANGED <<cfgv, extv, perfv, clientv, logv, writer, seqPos, output, fc_stopped, exc, pc, final_stats,
                 final_result, sinkLog, started, finished, released>>

\* the read reports end of file: fc.stop(), the batch goes back to the pool
InputFilterEof(t) ==
  /\ pc = "running" /\ exc = "none" /\ ~fc_stopped
  /\ Len(flight) < TokenLimit(cfg)
  /\ ~Busy(t)
  /\ HasManager(cfg)
  /\ LET pos == IF reader[t] = NoReader THEN 0 ELSE reader[t]
     IN /\ ReadChunk(input, pos, cfg.batch_size) = <<>>
        /\ reader' = [reader EXCEPT ![t] = pos]
  /\ pool' = ReleaseBatch(cfg, AcquireBatch(cfg, pool))
  /\ fc_stopped' = TRUE
  /\ UNCHANGED <<cfgv, extv, perfv, clientv, logv, writer, seqPos, output, flight, exc, pc, statv, histv>>

\* the reader throws (open failure, malformed record): catch, fc.stop(), rethrow;
\* the batch just obtained is destroyed by unwinding
InputFilterThrow(t) ==
  /\ pc = "running" /\ exc = "none" /\ ~fc_stopped
  /\ Len(flight) < TokenLimit(cfg)
  /\ ~Busy(t)
  /\ HasManager(cfg)
  /\ pool' = AcquireBatch(cfg, pool)
  /\ fc_stopped' = TRUE
  /\ exc' = "source"
  /\ errors' = Append(errors, "source")
  /\ flight' = OnlyRunning(flight)
  /\ UNCHANGED <<cfgv, extv, perfv, clientv, calls, iov, pc, statv, histv>>

\* variant of the hand-over to the processing filter: the worker starts on the
\* batch while the batch stays in the queue for another taker
ProcessBegin_Shared(t, i) ==
  /\ pc = "running" /\ exc = "none"
  /\ i \in 1..Len(flight) /\ flight[i].st = "parsed"
  /\ ~Busy(t)
  /\ flight' = [flight EXCEPT ![i].thr = t]
  /\ started' = started \cup {flight[i].seq}
  /\ UNCHANGED <<cfgv, extv, perfv, clientv, logv, iov, fc_stopped, exc, pc, pool, statv, parsed, sinkLog,
                 finished, released>>

\* ---- stage 2: processing filter (parallel) --------------------------------
ProcessBegin(t, i) ==
  /\ pc = "running" /\ exc = "none"
  /\ i \in 1..Len(flight) /\ flight[i].st = "parsed"
  /\ ~Busy(t)
  /\ flight' = [flight EXCEPT ![i].st = "running", ![i].thr = t]
  /\ started' = started \cup {flight[i].seq}
  /\ UNCHANGED <<cfgv, extv, perfv, clientv, logv, iov, fc_stopped, exc, pc, pool, statv, parsed, sinkLog,
                 finished, released>>

\* the body completes; the result of a cancelled pipeline is destroyed
ProcessEnd(i) ==
  /\ pc = "running"
  /\ i \in 1..Len(flight) /\ flight[i].st = "running"
  /\ LET b     == flight[i]
         stats == BatchStats(cfg, b.reads)
         done  == [b EXCEPT !.reads = ProcessReads(cfg.predicates, cfg.mutators, b.reads, 1),
                            !.st = "processed", !.thr = 0, !.stats = stats]
     IN /\ ctr' = [ctr EXCEPT !.total_reads_passed = @ + stats.passed_reads]
        /\ flight' = IF exc = "none" THEN [flight EXCEPT ![i] = done]
                     ELSE RemoveAt(flight, i)
        /\ finished' = finished \cup {b.seq}
        /\ calls' = calls \cup BatchCalls(cfg.predicates, cfg.mutators, b.reads)
  /\ UNCHANGED <<cfgv, extv, perfv, clientv, errors, iov, fc_stopped, exc, pc, pool, final_stats, final_result,
                 parsed, sinkLog, started, released>>

\* variant of the rethrow: the latest exception replaces the captured one
ProcessThrow_LastWins(i) ==
  /\ pc = "running"
  /\ i \in 1..Len(flight) /\ flight[i].st = "running"
  /\ exc' = "transform"
  /\ errors' = Append(errors, "transform")
  /\ flight' = OnlyRunning(RemoveAt(flight, i))
  /\ UNCHANGED <<cfgv, extv, perfv, clientv, calls, iov, fc_stopped, pc, pool, statv, histv>>

\* a predicate or mutator throws inside the body: catch, log, rethrow; the
\* pipeline's task group keeps the first exception it captured
ProcessThrow(i) ==
  /\ pc = "running"
  /\ i \in 1..Len(flight) /\ flight[i].st = "running"
  /\ exc' = IF exc = "none" THEN "transform" ELSE exc
  /\ errors' = Append(errors, "transform")
  /\ flight' = OnlyRunning(RemoveAt(flight, i))
  /\ UNCHANGED <<cfgv, extv, perfv, clientv, calls, iov, fc_stopped, pc, pool, statv, histv>>

\* ---- stage 3: output filter (serial_in_order) -----------------------------
\* variant of the output filter: the written item keeps its token
OutputFilterWrite_KeepsToken(t) ==
  /\ pc = "running" /\ exc = "none"
  /\ flight # <<>> /\ Head(flight).st = "processed"
  /\ ~Busy(t)
  /\ writer' = [writer EXCEPT ![t] = TRUE]
  /\ output' = output \o Head(flight).reads
  /\ sinkLog' = Append(sinkLog, Head(flight).seq)
  /\ pool' = ReleaseBatch(cfg, pool)
  /\ released' = released \cup {Head(flight).seq}
  /\ final_stats' = AddStats(final_stats, Head(flight).stats)
  /\ flight' = [flight EXCEPT ![1].st = "written"]
  /\ UNCHANGED <<cfgv, extv, perfv, clientv, logv, reader, seqPos, fc_stopped, exc, pc, ctr, final_result,
                 parsed, started, finished>>

OutputFilterWrite(t) ==
  /\ pc = "running" /\ exc = "none"
  /\ flight # <<>> /\ Head(flight).st = "processed"
  /\ ~Busy(t)
  /\ writer' = [writer EXCEPT ![t] = TRUE]
  /\ output' = output \o Head(flight).reads
  /\ sinkLog' = Append(sinkLog, Head(flight).seq)
  /\ pool' = ReleaseBatch(cfg, pool)
  /\ released' = released \cup {Head(flight).seq}
  /\ final_stats' = AddStats(final_stats, Head(flight).stats)
  /\ flight' = Tail(flight)
  /\ UNCHANGED <<cfgv, extv, perfv, clientv, logv, reader, seqPos, fc_stopped, exc, pc, ctr, final_result,
                 parsed, started, finished>>

\* opening the writer or writer->write throws: the batch is not released
OutputFilterThrow(t) ==
  /\ pc = "running" /\ exc = "none"
  /\ flight # <<>> /\ Head(flight).st = "processed"
  /\ ~Busy(t)
  /\ sinkLog' = Append(sinkLog, Head(flight).seq)
  /\ exc' = "sink"
  /\ errors' = Append(errors, "sink")
  /\ flight' = OnlyRunning(Tail(flight))
  /\ UNCHANGED <<cfgv, extv, perfv, clientv, calls, iov, fc_stopped, pc, pool, statv, parsed, started, finished,
                 released>>

\* ---- after tbb::parallel_pipeline -----------------------------------------
\* the statistics run() returns: TbbProcessingPipeline overwrites two counters
\* with its atomics (291-293), ProcessingPipeline returns the sink's sums (217)
FinalStats(c, fs, k) ==
  IF c.impl = "tbb"
  THEN [fs EXCEPT !.total_reads = k.total_reads_processed,
                  !.passed_reads = k.total_reads_passed]
  ELSE fs

\* all items drained after fc.stop(): run() returns its statistics
RunReturn ==
  /\ pc = "running" /\ exc = "none" /\ fc_stopped /\ flight = <<>>
  /\ final_stats' = FinalStats(cfg, final_stats, ctr)
  /\ pc' = "returned"
  /\ UNCHANGED <<cfgv, extv, perfv, clientv, logv, iov, pipev, ctr, final_result, histv, pool>>

\* the captured exception leaves parallel_pipeline once no body is running;
\* TbbProcessingPipeline::run logs and rethrows (315-318)
RunThrow ==
  /\ pc = "running" /\ exc # "none" /\ flight = <<>>
  /\ cfg.impl = "tbb"
  /\ pc' = "threw"
  /\ UNCHANGED <<cfgv, extv, perfv, clientv, logv, iov, pipev, statv, histv, pool>>

TbbNext ==
  \/ RunStart
  \/ \E t \in Threads : InputFilterRead(t)
  \/ \E t \in Threads : InputFilterEof(t)
  \/ \E t \in Threads : InputFilterThrow(t)
  \/ \E t \in Threads, i \in 1..Len(flight) : ProcessBegin(t, i)
  \/ \E i \in 1..Len(flight) : ProcessEnd(i)
  \/ \E i \in 1..Len(flight) : ProcessThrow(i)
  \/ \E t \in Threads : OutputFilterWrite(t)
  \/ \E t \in Threads : OutputFilterThrow(t)
  \/ RunReturn

Next == TbbNext \/ RunThrow

Spec == Init /\ [][Next]_vars

\* the TBB scheduler keeps executing filter bodies while any can run, and
\* parallel_pipeline returns once none is left
\* Draining does not depend on what the records hold: the behaviours are
\* explored for one chain and for files of one kind of record.
LiveConfigs == { c \in Configs : c.predicates = <<MinLen2, MinQ20>> }
LiveInputs  == { f \in Inputs : \A i \in 1..Len(f) : Len(f[i].base) = 4 }

InitLive == cfg \in LiveConfigs /\ input \in LiveInputs /\ InitCommon

FairSpec == InitLive /\ [][Next]_vars /\ WF_vars(Next)

\* ---- runs with enable_memory_pool = false ---------------------------------
\* the input filter calls m_memory_manager->acquire_batch() through an empty
\* shared_ptr: the behaviour is undefined, and the call reads the manager's
\* members through a null `this`, which ends the process
InputFilterNullManager(t) ==
  /\ pc = "running" /\ exc = "none" /\ ~fc_stopped
  /\ Len(flight) < TokenLimit(cfg)
  /\ ~Busy(t)
  /\ ~HasManager(cfg)
  /\ pc' = "crashed"
  /\ UNCHANGED <<cfgv, extv, perfv, clientv, logv, iov, pipev, statv, histv, pool>>

InitNoPool == cfg \in NoPoolConfigs /\ InitCommon

NextNoPool == Next \/ \E t \in Threads : InputFilterNullManager(t)

SpecNoPool == InitNoPool /\ [][NextNoPool]_vars

\* ---- ProcessingPipeline (src/Processing/ProcessingPipeline.cpp) ------------
\* run() with thread_count <= 1 goes straight to processSequential
RunSequential ==
  /\ pc = "idle"
  /\ cfg.impl = "legacy" /\ ~(cfg.thread_count > 1)
  /\ pc' = "sequential"
  /\ UNCHANGED <<cfgv, extv, perfv, clientv, logv, iov, pipev, statv, histv, pool>>

\* processWithTBB catches the pipeline's exception and falls back to
\* processSequential, which starts with fresh statistics and a fresh reader
Fallback ==
  /\ pc = "running" /\ exc # "none" /\ flight = <<>>
  /\ cfg.impl = "legacy"
  /\ pc' = "sequential"
  /\ seqPos' = 0
  /\ final_stats' = ZeroStats
  /\ UNCHANGED <<cfgv, extv, perfv, clientv, logv, reader, writer, output, pipev, ctr, final_result, histv, pool>>

\* processBatch: survivors and the counters it maintains
processBatch(c, reads, stats) ==
  [reads |-> ProcessReads(c.predicates, c.mutators, reads, 1),
   stats |-> AddStats(stats, LegacyBatchStats(c.predicates, c.mutators, reads))]

\* one iteration of while (reader.read(batch, batch_size))
SeqStep ==
  /\ pc = "sequential"
  /\ LET chunk == ReadChunk(input, seqPos, cfg.batch_size)
         r     == processBatch(cfg, chunk, final_stats)
     IN /\ chunk # <<>>
        /\ seqPos' = seqPos + Len(chunk)
        /\ final_stats' = r.stats
        /\ output' = output \o r.reads
        /\ calls' = calls \cup BatchCalls(cfg.predicates, cfg.mutators, chunk)
  /\ UNCHANGED <<cfgv, extv, perfv, clientv, errors, reader, writer, pipev, ctr, final_result, histv, pc, pool>>

\* read returns false: return stats
SeqReturn ==
  /\ pc = "sequential"
  /\ ReadChunk(input, seqPos, cfg.batch_size) = <<>>
  /\ pc' = "returned"
  /\ UNCHANGED <<cfgv, extv, perfv, clientv, logv, iov, pipev, statv, histv, pool>>

\* the reader or the writer throws: nothing catches it inside run()
SeqThrow ==
  /\ pc = "sequential"
  /\ pc' = "threw"
  /\ UNCHANGED <<cfgv, extv, perfv, clientv, logv, iov, pipev, statv, histv, pool>>

InitLegacy == cfg \in LegacyConfigs /\ InitCommon

NextLegacy == TbbNext \/ RunSequential \/ Fallback \/ SeqStep \/ SeqReturn \/ SeqThrow

SpecLegacy == InitLegacy /\ [][NextLegacy]_vars

\* processSequential as a function of the file: the records its writer receives
RECURSIVE SequentialOutput(_, _, _)
SequentialOutput(c, file, pos) ==
  LET chunk == ReadChunk(file, pos, c.batch_size)
  IN IF chunk = <<>> THEN <<>>
     ELSE processBatch(c, chunk, ZeroStats).reads
            \o SequentialOutput(c, file, pos + Len(chunk))

\* ---- FqStatistic::run (src/statistics/fq_statistic.cpp) --------------------
\* records of one fixed length, as the statistics pipeline requires
StatReadKinds ==
  { [base |-> <<"A", "C">>, qual |-> <<43, 63>>],
    [base |-> <<"N", "G">>, qual |-> <<63, 63>>],
    [base |-> <<"T", "T">>, qual |-> <<43, 43>>],
    [base |-> <<"G">>,      qual |-> <<63>>],
    [base |-> <<"C", "A">>, qual |-> <<43, 76>>] }

StatInputs ==
  UNION { { [i \in 1..n |-> MkRead(i, k[i].base, k[i].qual)] : k \in [1..n -> StatReadKinds] } :
          n \in 0..MaxRecords }

\* FqFileAttribution as FastQInfer reports it for a file: the length of its
\* records, 0 when it has none
Attribution(file) ==
  [read_length |-> IF file = <<>> THEN 0 ELSE Len(file[1].base),
   is_mutable_read_length |-> FALSE,
   qual_offset |-> PHRED_OFFSET_SANGER]

\* StatisticOptions
StatConfigs ==
  { [impl |-> "stat", batch_size |-> b, thread_num |-> w] :
      b \in 1..MaxBatchSize, w \in 1..NumThreads }

InitStat ==
  /\ cfg \in StatConfigs
  /\ input \in StatInputs
  /\ pool = NewPool(0, 0)
  /\ reader = [t \in Threads |-> NoReader]
  /\ writer = [t \in Threads |-> FALSE]
  /\ seqPos = 0
  /\ output = <<>>
  /\ flight = <<>>
  /\ fc_stopped = FALSE
  /\ exc = "none"
  /\ pc = "idle"
  /\ ctr = [total_reads_processed |-> 0, total_reads_passed |-> 0]
  /\ final_stats = ZeroStats
  /\ final_result = ZeroResult
  /\ parsed = <<>>
  /\ sinkLog = <<>>
  /\ started = {}
  /\ finished = {}
  /\ released = {}
  /\ errors = <<>>
  /\ calls = {}
  /\ NoRuns
  /\ NoExt
  /\ NoClients

\* run() refuses a file without a fixed read length (79-82)
StatRunReject ==
  /\ pc = "idle"
  /\ Attribution(input).is_mutable_read_length \/ Attribution(input).read_length = 0
  /\ pc' = "threw"
  /\ UNCHANGED <<cfgv, extv, perfv, clientv, logv, iov, pipev, statv, histv, pool>>

\* run() up to the call of tbb::parallel_pipeline (83-93)
StatRunStart ==
  /\ pc = "idle"
  /\ ~(Attribution(input).is_mutable_read_length \/ Attribution(input).read_length = 0)
  /\ pc' = "running"
  /\ UNCHANGED <<cfgv, extv, perfv, clientv, logv, iov, pipev, statv, histv, pool>>

\* stage 1: reader->read fills a fresh batch from the shared reader (99-105)
StatInputRead ==
  /\ pc = "running" /\ exc = "none" /\ ~fc_stopped
  /\ Len(flight) < TokenLimit(cfg)
  /\ \E t \in Threads : ~Busy(t)
  /\ LET chunk == ReadChunk(input, seqPos, cfg.batch_size)
     IN /\ chunk # <<>>
        /\ seqPos' = seqPos + Len(chunk)
        /\ flight' = Append(flight, [seq |-> Len(parsed), reads |-> chunk,
                                     st |-> "parsed", thr |-> 0, result |-> ZeroResult])
        /\ parsed' = Append(parsed, chunk)
  /\ UNCHANGED <<cfgv, extv, perfv, clientv, logv, reader, writer, output, fc_stopped, exc, pc, pool, statv,
                 sinkLog, started, finished, released>>

\* stage 1: read returns false: fc.stop() (106-110)
StatInputEof ==
  /\ pc = "running" /\ exc = "none" /\ ~fc_stopped
  /\ Len(flight) < TokenLimit(cfg)
  /\ \E t \in Threads : ~Busy(t)
  /\ ReadChunk(input, seqPos, cfg.batch_size) = <<>>
  /\ fc_stopped' = TRUE
  /\ UNCHANGED <<cfgv, extv, perfv, clientv, logv, iov, flight, exc, pc, pool, statv, histv>>

\* stage 1: the reader throws; nothing in the filter catches it
StatInputThrow ==
  /\ pc = "running" /\ exc = "none" /\ ~fc_stopped
  /\ Len(flight) < TokenLimit(cfg)
  /\ \E t \in Threads : ~Busy(t)
  /\ exc' = "source"
  /\ errors' = Append(errors, "source")
  /\ flight' = OnlyRunning(flight)
  /\ UNCHANGED <<cfgv, extv, perfv, clientv, calls, iov, fc_stopped, pc, pool, statv, histv>>

\* stage 2: worker.stat(*batch) returns the partial result (116-121)
StatProcessEnd(i) ==
  /\ pc = "running"
  /\ i \in 1..Len(flight) /\ flight[i].st = "running"
  /\ LET b    == flight[i]
         done == [b EXCEPT !.result = stat(b.reads, Attribution(input).qual_offset),
                           !.st = "processed", !.thr = 0]
     IN flight' = IF exc = "none" THEN [flight EXCEPT ![i] = done]
                  ELSE RemoveAt(flight, i)
  /\ finished' = finished \cup {flight[i].seq}
  /\ UNCHANGED <<cfgv, extv, perfv, clientv, logv, iov, fc_stopped, exc, pc, pool, statv, parsed, sinkLog,
                 started, released>>

\* stage 2: worker.stat(*batch) indexes a read or a table row past its end and
\* the process dies
StatProcessCrash(i) ==
  /\ pc = "running"
  /\ i \in 1..Len(flight) /\ flight[i].st = "running"
  /\ \/ ReadsPastEnd(flight[i].reads)
     \/ QualOutsideTable(flight[i].reads, Attribution(input).qual_offset)
  /\ pc' = "crashed"
  /\ UNCHANGED <<cfgv, extv, perfv, clientv, logv, iov, pipev, statv, histv, pool>>

\* stage 3: final_result += partial_result (124-126)
StatAggregate ==
  /\ pc = "running" /\ exc = "none"
  /\ flight # <<>> /\ Head(flight).st = "processed"
  /\ \E t \in Threads : ~Busy(t)
  /\ final_result' = PlusEq(final_result, Head(flight).result)
  /\ sinkLog' = Append(sinkLog, Head(flight).seq)
  /\ flight' = Tail(flight)
  /\ UNCHANGED <<cfgv, extv, perfv, clientv, logv, iov, fc_stopped, exc, pc, pool, ctr, final_stats,
                 parsed, started, finished, released>>

\* the pipeline has drained: writeResult(final_result), run() returns (128-132)
StatReturn ==
  /\ pc = "running" /\ exc = "none" /\ fc_stopped /\ flight = <<>>
  /\ output' = writeResult(final_result)
  /\ pc' = "returned"
  /\ UNCHANGED <<cfgv, extv, perfv, clientv, logv, reader, writer, seqPos, pipev, statv, histv, pool>>

\* the exception leaves parallel_pipeline and run()
StatThrow ==
  /\ pc = "running" /\ exc # "none" /\ flight = <<>>
  /\ pc' = "threw"
  /\ UNCHANGED <<cfgv, extv, perfv, clientv, logv, iov, pipev, statv, histv, pool>>

NextStat ==
  \/ StatRunReject
  \/ StatRunStart
  \/ StatInputRead
  \/ StatInputEof
  \/ StatInputThrow
  \/ \E t \in Threads, i \in 1..Len(flight) : ProcessBegin(t, i)
  \/ \E i \in 1..Len(flight) : StatProcessEnd(i)
  \/ \E i \in 1..Len(flight) : StatProcessCrash(i)
  \/ StatAggregate
  \/ StatReturn
  \/ StatThrow

SpecStat == InitStat /\ [][NextStat]_vars

\* ---- FqStatisticResult::operator+= on its own (fq_statistic.cpp 23-27) ------
\* the results FqStatisticWorker::stat returns for batches of one read length
StatResults ==
  { stat(f, PHRED_OFFSET_SANGER) : f \in { g \in StatInputs : ~ReadsPastEnd(g) /\
                                           \A i \in 1..Len(g) : Len(g[i].base) = Len(g[1].base) } }

\* final_result and partial_result are any two such results
InitMerge ==
  /\ cfg \in { c \in StatConfigs : c.batch_size = 1 /\ c.thread_num = 1 }
  /\ input = <<>>
  /\ pool = NewPool(0, 0)
  /\ reader = [t \in Threads |-> NoReader]
  /\ writer = [t \in Threads |-> FALSE]
  /\ seqPos = 0
  /\ output = <<>>
  /\ \E partial_result \in StatResults :
        flight = <<[seq |-> 0, reads |-> <<>>, st |-> "processed", thr |-> 0,
                    result |-> partial_result]>>
  /\ fc_stopped = FALSE
  /\ exc = "none"
  /\ pc = "merge"
  /\ ctr = [total_reads_processed |-> 0, total_reads_passed |-> 0]
  /\ final_stats = ZeroStats
  /\ final_result \in StatResults
  /\ parsed = <<>>
  /\ sinkLog = <<>>
  /\ started = {}
  /\ finished = {}
  /\ released = {}
  /\ errors = <<>>
  /\ calls = {}
  /\ NoRuns
  /\ NoExt
  /\ NoClients

\* final_result += partial_result; the operator has no failing path
Merge ==
  /\ pc = "merge"
  /\ final_result' = PlusEq(final_result, Head(flight).result)
  /\ pc' = "merged"
  /\ UNCHANGED <<cfgv, extv, perfv, clientv, logv, iov, pipev, ctr, final_stats, histv, pool>>

SpecMerge == InitMerge /\ [][Merge]_vars

\* ---- m_stats over successive run() calls (tbb_processing_pipeline.cpp) ------
\* One pipeline object is run several times.  get_performance_stats may be
\* called from another thread in any state; it returns a copy of m_stats.
RunsConfigs ==
  { [impl |-> "tbb", batch_size |-> b, enable_statistics |-> e] :
      b \in 1..MaxBatchSize, e \in BOOLEAN }

InitRuns ==
  /\ cfg \in RunsConfigs
  /\ input = <<>>
  /\ pool = NewPool(0, 0)
  /\ reader = [t \in Threads |-> NoReader]
  /\ writer = [t \in Threads |-> FALSE]
  /\ seqPos = 0
  /\ output = <<>>
  /\ flight = <<>>
  /\ fc_stopped = FALSE
  /\ exc = "none"
  /\ pc = "no_run"
  /\ ctr = [total_reads_processed |-> 0, total_reads_passed |-> 0]
  /\ final_stats = ZeroStats
  /\ final_result = ZeroResult
  /\ parsed = <<>>
  /\ sinkLog = <<>>
  /\ started = {}
  /\ finished = {}
  /\ released = {}
  /\ errors = <<>>
  /\ calls = {}
  /\ NoRuns
  /\ NoExt
  /\ NoClients

runsv == <<cfgv, extv, clientv, iov, pipev, statv, histv, logv, pool>>

\* run() is entered
RunInvoke ==
  /\ pc = "no_run" /\ run_no < MaxRuns
  /\ pc' = "entered"
  /\ run_no' = run_no + 1
  /\ run_reads' = 0
  /\ UNCHANGED <<runsv, m_stats>>

\* the two path checks: either path empty throws out of run()
RunCheckPaths ==
  /\ pc = "entered"
  /\ \E paths_set \in BOOLEAN : pc' = IF paths_set THEN "checked" ELSE "no_run"
  /\ UNCHANGED <<runsv, perfv>>

\* reset_stats(): m_stats = PerformanceStats{} under m_stats_mutex
RunResetStats ==
  /\ pc = "checked"
  /\ m_stats' = ZeroPerf
  /\ pc' = "piping"
  /\ UNCHANGED <<runsv, run_no, run_reads>>

\* update_input_stats, called by the input filter for every batch it returns
update_input_stats ==
  /\ pc = "piping"
  /\ \E reads_count \in 1..cfg.batch_size :
        /\ run_reads + reads_count <= MaxRunReads
        /\ run_reads' = run_reads + reads_count
        /\ m_stats' = IF ~cfg.enable_statistics THEN m_stats
                      ELSE [m_stats EXCEPT !.total_batches = @ + 1,
                                           !.total_reads = @ + reads_count]
  /\ UNCHANGED <<runsv, run_no, pc>>

\* the pipeline has ended: run() returns its statistics or rethrows
RunEnd ==
  /\ pc = "piping"
  /\ pc' = "no_run"
  /\ UNCHANGED <<runsv, perfv>>

NextRuns == RunInvoke \/ RunCheckPaths \/ RunResetStats \/ update_input_stats \/ RunEnd

SpecRuns == InitRuns /\ [][NextRuns]_vars

\* ---- FqInfoBatchPool under concurrent callers (batch_memory_manager.cpp) -----
\* Threads call acquire, release and reset_stats directly.  The part of a call
\* under m_mutex is one step; every atomic operation outside the lock is a step
\* of its own.  reset_stats holds m_stats_mutex, which no other call takes.
runv == <<cfgv, extv, perfv, iov, pipev, statv, histv, logv, pc>>

InAcquire(t) == op[t] \in {"miss_count", "active_count", "total_allocated"}

InitPool ==
  /\ cfg = CHOOSE c \in Configs : TRUE
  /\ input = <<>>
  /\ \E initial_size \in 0..MaxPoolSize, max_size \in 1..(MaxPoolSize + 1) :
        pool = NewPool(initial_size, max_size)
  /\ reader = [t \in Threads |-> NoReader]
  /\ writer = [t \in Threads |-> FALSE]
  /\ seqPos = 0
  /\ output = <<>>
  /\ flight = <<>>
  /\ fc_stopped = FALSE
  /\ exc = "none"
  /\ pc = "pool"
  /\ ctr = [total_reads_processed |-> 0, total_reads_passed |-> 0]
  /\ final_stats = ZeroStats
  /\ final_result = ZeroResult
  /\ parsed = <<>>
  /\ sinkLog = <<>>
  /\ started = {}
  /\ finished = {}
  /\ released = {}
  /\ errors = <<>>
  /\ calls = {}
  /\ NoRuns
  /\ NoExt
  /\ op = [t \in Threads |-> "idle"]
  /\ held = [t \in Threads |-> 0]
  /\ rst = 0
  /\ budget = [acquire |-> MaxAcquires, reset |-> MaxResets]
  /\ acquire_calls = 0
  /\ overlap = FALSE

\* acquire: the block under m_mutex; a pooled batch is returned from inside it
AcquireEnter(t) ==
  /\ pc = "pool" /\ op[t] = "idle" /\ budget.acquire > 0
  /\ budget' = [budget EXCEPT !.acquire = @ - 1]
  /\ acquire_calls' = acquire_calls + 1
  /\ overlap' = (overlap \/ rst # 0)
  /\ IF pool.m_pool > 0
     THEN /\ pool' = [pool EXCEPT !.m_pool = @ - 1, !.m_active_count = @ + 1,
                                  !.m_hit_count = @ + 1]
          /\ held' = [held EXCEPT ![t] = @ + 1]
          /\ op' = op
     ELSE /\ op' = [op EXCEPT ![t] = "miss_count"]
          /\ UNCHANGED <<pool, held>>
  /\ UNCHANGED <<runv, rst>>

\* variant of the miss path: the miss is not counted
AcquireMissCount_Skipped(t) ==
  /\ pc = "pool" /\ op[t] = "miss_count"
  /\ op' = [op EXCEPT ![t] = "active_count"]
  /\ overlap' = (overlap \/ rst # 0)
  /\ UNCHANGED <<runv, pool, held, rst, budget, acquire_calls>>

\* m_miss_count++
AcquireMissCount(t) ==
  /\ pc = "pool" /\ op[t] = "miss_count"
  /\ pool' = [pool EXCEPT !.m_miss_count = @ + 1]
  /\ op' = [op EXCEPT ![t] = "active_count"]
  /\ overlap' = (overlap \/ rst # 0)
  /\ UNCHANGED <<runv, held, rst, budget, acquire_calls>>

\* m_active_count++
AcquireActiveCount(t) ==
  /\ pc = "pool" /\ op[t] = "active_count"
  /\ pool' = [pool EXCEPT !.m_active_count = @ + 1]
  /\ op' = [op EXCEPT ![t] = "total_allocated"]
  /\ overlap' = (overlap \/ rst # 0)
  /\ UNCHANGED <<runv, held, rst, budget, acquire_calls>>

\* m_total_allocated++; return create_object()
AcquireCreate(t) ==
  /\ pc = "pool" /\ op[t] = "total_allocated"
  /\ pool' = [pool EXCEPT !.m_total_allocated = @ + 1]
  /\ op' = [op EXCEPT ![t] = "idle"]
  /\ held' = [held EXCEPT ![t] = @ + 1]
  /\ overlap' = (overlap \/ rst # 0)
  /\ UNCHANGED <<runv, rst, budget, acquire_calls>>

\* release: batch->clear() and the block under m_mutex
ReleaseEnter(t) ==
  /\ pc = "pool" /\ op[t] = "idle" /\ held[t] > 0
  /\ held' = [held EXCEPT ![t] = @ - 1]
  /\ IF pool.m_pool < pool.m_max_size
     THEN /\ pool' = [pool EXCEPT !.m_pool = @ + 1, !.m_active_count = @ - 1,
                                  !.m_total_freed = @ + 1]
          /\ op' = op
     ELSE /\ op' = [op EXCEPT ![t] = "rel_active"]
          /\ pool' = pool
  /\ UNCHANGED <<runv, rst, budget, acquire_calls, overlap>>

\* the pool is full: m_active_count--
ReleaseActiveCount(t) ==
  /\ pc = "pool" /\ op[t] = "rel_active"
  /\ pool' = [pool EXCEPT !.m_active_count = @ - 1]
  /\ op' = [op EXCEPT ![t] = "rel_freed"]
  /\ UNCHANGED <<runv, held, rst, budget, acquire_calls, overlap>>

\* m_total_freed++
ReleaseFreed(t) ==
  /\ pc = "pool" /\ op[t] = "rel_freed"
  /\ pool' = [pool EXCEPT !.m_total_freed = @ + 1]
  /\ op' = [op EXCEPT ![t] = "idle"]
  /\ UNCHANGED <<runv, held, rst, budget, acquire_calls, overlap>>

\* reset_stats: lock m_stats_mutex; m_total_allocated = 0
ResetStats ==
  /\ pc = "pool" /\ rst = 0 /\ budget.reset > 0
  /\ budget' = [budget EXCEPT !.reset = @ - 1]
  /\ pool' = [pool EXCEPT !.m_total_allocated = 0]
  /\ rst' = 1
  /\ overlap' = \E t \in Threads : InAcquire(t)
  /\ UNCHANGED <<runv, op, held, acquire_calls>>

\* m_total_freed = 0; m_hit_count = 0; m_miss_count = 0, one store at a time
ResetStore ==
  /\ pc = "pool" /\ rst \in 1..3
  /\ pool' = IF rst = 1 THEN [pool EXCEPT !.m_total_freed = 0]
             ELSE IF rst = 2 THEN [pool EXCEPT !.m_hit_count = 0]
             ELSE [pool EXCEPT !.m_miss_count = 0]
  /\ rst' = (rst + 1) % 4
  /\ acquire_calls' = IF rst = 3 THEN 0 ELSE acquire_calls
  /\ UNCHANGED <<runv, op, held, budget, overlap>>

NextPool ==
  \/ \E t \in Threads : \/ AcquireEnter(t) \/ AcquireMissCount(t)
                        \/ AcquireActiveCount(t) \/ AcquireCreate(t)
                        \/ ReleaseEnter(t) \/ ReleaseActiveCount(t) \/ ReleaseFreed(t)
  \/ ResetStats
  \/ ResetStore

SpecPool == InitPool /\ [][NextPool]_vars

\* ---- FqInfoBatchPool: every public call, with its mutexes -------------------
\* Threads call acquire, release, shrink, expand, preallocate, get_stats and
\* reset_stats.  Taking a std::mutex is a step of its own, so that a thread can
\* be seen waiting for it; the block under the lock is one step.
locksv == <<cfgv, perfv, iov, pipev, statv, histv, logv, pc, rst, acquire_calls, overlap, eh, rec, strat, mgr, proc>>

\* the calls that start with std::lock_guard lock(m_mutex)
PoolCalls == {"acquire", "release", "shrink", "expand", "preallocate"}

WantsMutex(t) == op[t] \in {c \o "_lock" : c \in PoolCalls} \cup {"pool_size_lock"}
WantsStatsMutex(t) == op[t] \in {"get_stats_lock", "reset_stats_lock", "shrink_stats_lock"}

InitLocks ==
  /\ cfg = CHOOSE c \in Configs : TRUE
  /\ input = <<>>
  /\ \E initial_size \in 0..MaxPoolSize, max_size \in 1..(MaxPoolSize + 1) :
        pool = NewPool(initial_size, max_size)
  /\ reader = [t \in Threads |-> NoReader]
  /\ writer = [t \in Threads |-> FALSE]
  /\ seqPos = 0
  /\ output = <<>>
  /\ flight = <<>>
  /\ fc_stopped = FALSE
  /\ exc = "none"
  /\ pc = "locks"
  /\ ctr = [total_reads_processed |-> 0, total_reads_passed |-> 0]
  /\ final_stats = ZeroStats
  /\ final_result = ZeroResult
  /\ parsed = <<>>
  /\ sinkLog = <<>>
  /\ started = {}
  /\ finished = {}
  /\ released = {}
  /\ errors = <<>>
  /\ calls = {}
  /\ NoRuns
  /\ NoExt
  /\ op = [t \in Threads |-> "idle"]
  /\ held = [t \in Threads |-> 0]
  /\ rst = 0
  /\ budget = [acquire |-> MaxCalls, reset |-> 0]
  /\ acquire_calls = 0
  /\ overlap = FALSE

\* a thread enters one of the calls and reaches its lock_guard
CallPool(t, c) ==
  /\ pc = "locks" /\ op[t] = "idle" /\ budget.acquire > 0
  /\ c = "release" => held[t] > 0
  /\ op' = [op EXCEPT ![t] = c \o "_lock"]
  /\ budget' = [budget EXCEPT !.acquire = @ - 1]
  /\ UNCHANGED <<locksv, m_mutex, m_stats_mutex, pool, held>>

\* std::lock_guard<std::mutex> lock(m_mutex)
LockMutex(t) ==
  /\ pc = "locks" /\ WantsMutex(t) /\ m_mutex = 0
  /\ m_mutex' = t
  /\ op' = [op EXCEPT ![t] = SubSeq(@, 1, Len(@) - 5)]
  /\ UNCHANGED <<locksv, m_stats_mutex, pool, held, budget>>

\* std::lock_guard<std::mutex> lock(m_stats_mutex)
LockStatsMutex(t) ==
  /\ pc = "locks" /\ WantsStatsMutex(t) /\ m_stats_mutex = 0
  /\ m_stats_mutex' = t
  /\ op' = [op EXCEPT ![t] = SubSeq(@, 1, Len(@) - 5)]
  /\ UNCHANGED <<locksv, m_mutex, pool, held, budget>>

\* acquire under the lock, and its miss path after the lock is dropped
AcquireBody(t) ==
  /\ pc = "locks" /\ op[t] = "acquire" /\ m_mutex = t
  /\ m_mutex' = 0
  /\ pool' = Acquire(pool)
  /\ held' = [held EXCEPT ![t] = @ + 1]
  /\ op' = [op EXCEPT ![t] = "idle"]
  /\ UNCHANGED <<locksv, m_stats_mutex, budget>>

\* release of a non-null batch
ReleaseBody(t) ==
  /\ pc = "locks" /\ op[t] = "release" /\ m_mutex = t
  /\ m_mutex' = 0
  /\ pool' = Release(pool)
  /\ held' = [held EXCEPT ![t] = @ - 1]
  /\ op' = [op EXCEPT ![t] = "idle"]
  /\ UNCHANGED <<locksv, m_stats_mutex, budget>>

\* FqInfoBatchPool::shrink: the pool keeps max(5, m_max_size / 10) batches
shrink(p) ==
  LET min_keep == Max(5, p.m_max_size \div 10)
  IN IF p.m_pool > min_keep THEN [p EXCEPT !.m_pool = min_keep] ELSE p

\* variant of shrink: it goes on to take m_stats_mutex with m_mutex held
ShrinkBody_LocksStats(t) ==
  /\ pc = "locks" /\ op[t] = "shrink" /\ m_mutex = t
  /\ pool' = shrink(pool)
  /\ op' = [op EXCEPT ![t] = "shrink_stats_lock"]
  /\ UNCHANGED <<locksv, m_mutex, m_stats_mutex, held, budget>>

ShrinkBody(t) ==
  /\ pc = "locks" /\ op[t] = "shrink" /\ m_mutex = t
  /\ m_mutex' = 0
  /\ pool' = shrink(pool)
  /\ op' = [op EXCEPT ![t] = "idle"]
  /\ UNCHANGED <<locksv, m_stats_mutex, held, budget>>

\* FqInfoBatchPool::expand: m_max_size - current_size is a size_t difference,
\* which wraps to a value above any count when the pool is over its limit
expand(p, count) ==
  LET current_size == p.m_pool
      can_add == IF current_size > p.m_max_size THEN count
                 ELSE Min(count, p.m_max_size - current_size)
  IN [p EXCEPT !.m_pool = @ + can_add, !.m_total_allocated = @ + can_add]

ExpandBody(t) ==
  /\ pc = "locks" /\ op[t] = "expand" /\ m_mutex = t
  /\ m_mutex' = 0
  /\ \E count \in 1..MaxCount : pool' = expand(pool, count)
  /\ op' = [op EXCEPT ![t] = "idle"]
  /\ UNCHANGED <<locksv, m_stats_mutex, held, budget>>

\* FqInfoBatchPool::preallocate
preallocate(p, count) ==
  LET to_allocate == Min(count, p.m_max_size)
  IN [p EXCEPT !.m_pool = @ + to_allocate, !.m_total_allocated = @ + to_allocate]

PreallocateBody(t) ==
  /\ pc = "locks" /\ op[t] = "preallocate" /\ m_mutex = t
  /\ m_mutex' = 0
  /\ \E count \in 1..MaxCount : pool' = preallocate(pool, count)
  /\ op' = [op EXCEPT ![t] = "idle"]
  /\ UNCHANGED <<locksv, m_stats_mutex, held, budget>>

\* get_stats holds m_stats_mutex and calls pool_size(), which locks m_mutex
GetStatsCallsPoolSize(t) ==
  /\ pc = "locks" /\ op[t] = "get_stats" /\ m_stats_mutex = t
  /\ op' = [op EXCEPT ![t] = "pool_size_lock"]
  /\ UNCHANGED <<locksv, m_mutex, m_stats_mutex, pool, held, budget>>

\* pool_size returns m_pool.size(); get_stats loads the atomics and returns
GetStatsReturn(t) ==
  /\ pc = "locks" /\ op[t] = "pool_size" /\ m_mutex = t /\ m_stats_mutex = t
  /\ m_mutex' = 0
  /\ m_stats_mutex' = 0
  /\ op' = [op EXCEPT ![t] = "idle"]
  /\ UNCHANGED <<locksv, pool, held, budget>>

\* reset_stats under m_stats_mutex
ResetStatsBody(t) ==
  /\ pc = "locks" /\ op[t] = "reset_stats" /\ m_stats_mutex = t
  /\ m_stats_mutex' = 0
  /\ pool' = [pool EXCEPT !.m_total_allocated = 0, !.m_total_freed = 0,
                          !.m_hit_count = 0, !.m_miss_count = 0]
  /\ op' = [op EXCEPT ![t] = "idle"]
  /\ UNCHANGED <<locksv, m_mutex, held, budget>>

NextLocks ==
  \E t \in Threads :
     \/ \E c \in PoolCalls \cup {"get_stats", "reset_stats"} : CallPool(t, c)
     \/ LockMutex(t)
     \/ LockStatsMutex(t)
     \/ AcquireBody(t)
     \/ ReleaseBody(t)
     \/ ShrinkBody(t)
     \/ ExpandBody(t)
     \/ PreallocateBody(t)
     \/ GetStatsCallsPoolSize(t)
     \/ GetStatsReturn(t)
     \/ ResetStatsBody(t)

SpecLocks == InitLocks /\ [][NextLocks]_vars

\* ---- ErrorHandler (modules/error/error.cpp) ---------------------------------
\* A handler is known by the category it is registered for, its place in that
\* category's vector and the value it returns: hs[k] is what handler k answers.

\* variant of the loop: a handler that returns true does not end it
RECURSIVE HandlerLoop_NoStop(_, _, _)
HandlerLoop_NoStop(category, hs, k) ==
  IF k > Len(hs) THEN [invoked |-> <<>>, result |-> FALSE]
  ELSE LET rest == HandlerLoop_NoStop(category, hs, k + 1)
       IN [invoked |-> << <<category, k>> >> \o rest.invoked,
           result  |-> hs[k] \/ rest.result]

\* the loop of handle_error over one category's handlers, from handler k on:
\* the handlers invoked, in order, and the value returned
RECURSIVE HandlerLoop(_, _, _)
HandlerLoop(category, hs, k) ==
  IF k > Len(hs) THEN [invoked |-> <<>>, result |-> FALSE]
  ELSE IF hs[k] THEN [invoked |-> << <<category, k>> >>, result |-> TRUE]
  ELSE LET rest == HandlerLoop(category, hs, k + 1)
       IN [invoked |-> << <<category, k>> >> \o rest.invoked, result |-> rest.result]

\* ErrorHandler::handle_error: m_handlers.find(error.category()), then the loop
handle_error(m_handlers, category) ==
  IF category \in DOMAIN m_handlers /\ m_handlers[category] # <<>>
  THEN HandlerLoop(category, m_handlers[category], 1)
  ELSE [invoked |-> <<>>, result |-> FALSE]

NumHandlers == Len(eh.m_handlers["IO"]) + Len(eh.m_handlers["Format"])

InitHandlers ==
  /\ cfg = CHOOSE c \in Configs : TRUE
  /\ input = <<>>
  /\ pool = PipelinePool(cfg.memory_pool_size)
  /\ reader = [t \in Threads |-> NoReader]
  /\ writer = [t \in Threads |-> FALSE]
  /\ seqPos = 0
  /\ output = <<>>
  /\ flight = <<>>
  /\ fc_stopped = FALSE
  /\ exc = "none"
  /\ pc = "handlers"
  /\ ctr = [total_reads_processed |-> 0, total_reads_passed |-> 0]
  /\ final_stats = ZeroStats
  /\ final_result = ZeroResult
  /\ parsed = <<>>
  /\ sinkLog = <<>>
  /\ started = {}
  /\ finished = {}
  /\ released = {}
  /\ errors = <<>>
  /\ calls = {}
  /\ NoRuns
  /\ NoExt
  /\ NoClients

\* register_handler(category, handler): the handler joins its category's vector
RegisterHandler(category, returns) ==
  /\ pc = "handlers" /\ NumHandlers < MaxHandlers
  /\ eh' = [eh EXCEPT !.m_handlers[category] = Append(@, returns)]
  /\ UNCHANGED <<basev, m_mutex, m_stats_mutex, mgr, proc, rec, strat>>

\* handle_error(error) on an exception of the given category
HandleError(category) ==
  /\ pc = "handlers"
  /\ LET r == handle_error(eh.m_handlers, category)
     IN eh' = [eh EXCEPT !.called = TRUE, !.error = category, !.at_call = eh.m_handlers,
                         !.invoked = r.invoked, !.result = r.result]
  /\ UNCHANGED <<basev, m_mutex, m_stats_mutex, mgr, proc, rec, strat>>

NextHandlers ==
  \/ \E category \in Categories, returns \in BOOLEAN : RegisterHandler(category, returns)
  \/ \E category \in Categories : HandleError(category)

SpecHandlers == InitHandlers /\ [][NextHandlers]_vars

\* ---- ErrorRecoveryHandler (modules/error/error_recovery.cpp) ----------------
\* Impl::default_recovery_handler
default_recovery_handler(severity) ==
  IF severity \in {"Info", "Warning"} THEN "Continue"
  ELSE IF severity = "Error" THEN "Failed"
  ELSE IF severity \in {"Critical", "Fatal"} THEN "Aborted"
  ELSE "Failed"

\* calling a RecoveryFunction on an exception
CallRecovery(handler, ex) ==
  IF handler = "default_recovery_handler" THEN default_recovery_handler(ex.severity)
  ELSE handler

\* ErrorRecoveryHandler::update_stats: the switch over the result
update_stats(stats, result) ==
  IF result = "Success" THEN [stats EXCEPT !.successful_recoveries = @ + 1]
  ELSE IF result = "Failed" THEN [stats EXCEPT !.failed_recoveries = @ + 1]
  ELSE IF result = "Skipped" THEN [stats EXCEPT !.skipped_operations = @ + 1]
  ELSE IF result = "Retrying" THEN [stats EXCEPT !.retry_attempts = @ + 1]
  ELSE IF result = "Aborted" THEN [stats EXCEPT !.aborted_operations = @ + 1]
  ELSE stats

\* variant of try_recover: after the handler of the error code, the handler of
\* the severity is called as well and its result returned
try_recover_FallsThrough(r, ex) ==
  LET counted == [r.stats EXCEPT !.total_attempts = @ + 1]
      byCode  == IF r.code_handlers[ex.code] # "none" THEN <<"code">> ELSE <<>>
      hasSev  == r.severity_handlers[ex.severity] # "none"
      result  == IF hasSev THEN CallRecovery(r.severity_handlers[ex.severity], ex)
                 ELSE IF byCode # <<>> THEN CallRecovery(r.code_handlers[ex.code], ex)
                 ELSE CallRecovery(r.default_handler, ex)
  IN [r EXCEPT !.stats = update_stats(counted, result),
               !.invoked = IF hasSev THEN byCode \o <<"severity">>
                           ELSE IF byCode # <<>> THEN byCode ELSE <<"default">>,
               !.result = result]

\* ErrorRecoveryHandler::try_recover; invoked lists the handlers it called
try_recover(r, ex) ==
  LET counted == [r.stats EXCEPT !.total_attempts = @ + 1]
  IN IF r.code_handlers[ex.code] # "none"
     THEN LET result == CallRecovery(r.code_handlers[ex.code], ex)
          IN [r EXCEPT !.stats = update_stats(counted, result),
                       !.invoked = <<"code">>, !.result = result]
     ELSE IF r.severity_handlers[ex.severity] # "none"
     THEN LET result == CallRecovery(r.severity_handlers[ex.severity], ex)
          IN [r EXCEPT !.stats = update_stats(counted, result),
                       !.invoked = <<"severity">>, !.result = result]
     ELSE LET result == CallRecovery(r.default_handler, ex)
          IN [r EXCEPT !.stats = update_stats(counted, result),
                       !.invoked = <<"default">>, !.result = result]

NumRegistered ==
  Cardinality({c \in Codes : rec.code_handlers[c] # "none"})
  + Cardinality({v \in Severities : rec.severity_handlers[v] # "none"})
  + (IF rec.default_handler # "default_recovery_handler" THEN 1 ELSE 0)

InitRecovery ==
  /\ cfg = CHOOSE c \in Configs : TRUE
  /\ input = <<>>
  /\ pool = PipelinePool(cfg.memory_pool_size)
  /\ reader = [t \in Threads |-> NoReader]
  /\ writer = [t \in Threads |-> FALSE]
  /\ seqPos = 0
  /\ output = <<>>
  /\ flight = <<>>
  /\ fc_stopped = FALSE
  /\ exc = "none"
  /\ pc = "recovery"
  /\ ctr = [total_reads_processed |-> 0, total_reads_passed |-> 0]
  /\ final_stats = ZeroStats
  /\ final_result = ZeroResult
  /\ parsed = <<>>
  /\ sinkLog = <<>>
  /\ started = {}
  /\ finished = {}
  /\ released = {}
  /\ errors = <<>>
  /\ calls = {}
  /\ NoRuns
  /\ NoExt
  /\ NoClients

\* register_handler(code, handler)
RegisterForCode(code, handler) ==
  /\ pc = "recovery" /\ NumRegistered < MaxRegistered
  /\ rec' = [rec EXCEPT !.code_handlers[code] = handler]
  /\ UNCHANGED <<basev, m_mutex, m_stats_mutex, mgr, proc, eh, strat>>

\* register_handler(severity, handler)
RegisterForSeverity(severity, handler) ==
  /\ pc = "recovery" /\ NumRegistered < MaxRegistered
  /\ rec' = [rec EXCEPT !.severity_handlers[severity] = handler]
  /\ UNCHANGED <<basev, m_mutex, m_stats_mutex, mgr, proc, eh, strat>>

\* register_default_handler(handler)
RegisterDefault(handler) ==
  /\ pc = "recovery" /\ NumRegistered < MaxRegistered
  /\ rec' = [rec EXCEPT !.default_handler = handler]
  /\ UNCHANGED <<basev, m_mutex, m_stats_mutex, mgr, proc, eh, strat>>

\* try_recover(ex)
TryRecover(ex) ==
  /\ pc = "recovery" /\ rec.stats.total_attempts < MaxAttempts
  /\ rec' = [try_recover(rec, ex) EXCEPT
               !.at_call = [code_handlers |-> rec.code_handlers,
                            severity_handlers |-> rec.severity_handlers,
                            default_handler |-> rec.default_handler,
                            ex |-> ex, attempts |-> rec.stats.total_attempts]]
  /\ UNCHANGED <<basev, m_mutex, m_stats_mutex, mgr, proc, eh, strat>>

NextRecovery ==
  \/ \E code \in Codes, handler \in Results : RegisterForCode(code, handler)
  \/ \E severity \in Severities, handler \in Results : RegisterForSeverity(severity, handler)
  \/ \E handler \in Results : RegisterDefault(handler)
  \/ \E code \in Codes, severity \in Severities :
        TryRecover([code |-> code, severity |-> severity])

SpecRecovery == InitRecovery /\ [][NextRecovery]_vars

\* ---- RecoveryStrategyBuilder (modules/error/error_recovery.cpp) -------------
\* RecoveryStrategyBuilder::handle_retry: the loop body returns in its first
\* iteration; the code after the loop is reached only when m_max_retries is 0
handle_retry(m_max_retries) == IF 0 < m_max_retries THEN "Retrying" ELSE "Failed"

\* the function build() returns, called on an exception that matches its error
\* codes and severities: the switch over m_strategy
strategy(b) ==
  IF b.m_strategy = "Retry" THEN handle_retry(b.m_max_retries)
  ELSE IF b.m_strategy = "Skip" THEN "Skipped"
  ELSE IF b.m_strategy = "UseDefault" THEN "Success"
  ELSE IF b.m_strategy = "Abort" THEN "Aborted"
  ELSE IF b.m_strategy = "Continue" THEN "Continue"
  ELSE "Failed"

\* the caller's loop condition: first call, or the last answer was Retrying
AskAgain(answers) == IF answers = <<>> THEN TRUE ELSE answers[Len(answers)] = "Retrying"

InitStrategy ==
  /\ cfg = CHOOSE c \in Configs : TRUE
  /\ input = <<>>
  /\ pool = PipelinePool(cfg.memory_pool_size)
  /\ reader = [t \in Threads |-> NoReader]
  /\ writer = [t \in Threads |-> FALSE]
  /\ seqPos = 0
  /\ output = <<>>
  /\ flight = <<>>
  /\ fc_stopped = FALSE
  /\ exc = "none"
  /\ pc = "strategy"
  /\ ctr = [total_reads_processed |-> 0, total_reads_passed |-> 0]
  /\ final_stats = ZeroStats
  /\ final_result = ZeroResult
  /\ parsed = <<>>
  /\ sinkLog = <<>>
  /\ started = {}
  /\ finished = {}
  /\ released = {}
  /\ errors = <<>>
  /\ calls = {}
  /\ NoRuns
  /\ NoExt
  /\ NoClients

\* retry(max_attempts, delay)
BuilderRetry(max_attempts) ==
  /\ pc = "strategy" /\ ~strat.built
  /\ strat' = [strat EXCEPT !.m_strategy = "Retry", !.m_max_retries = max_attempts]
  /\ UNCHANGED <<basev, m_mutex, m_stats_mutex, mgr, proc, eh, rec>>

\* skip(), use_default_value(), abort(), continue_execution()
BuilderSet(s) ==
  /\ pc = "strategy" /\ ~strat.built
  /\ strat' = [strat EXCEPT !.m_strategy = s]
  /\ UNCHANGED <<basev, m_mutex, m_stats_mutex, mgr, proc, eh, rec>>

\* build(): the function returned captures `this`.  When the builder is a
\* temporary (RecoveryStrategyBuilder().retry(..).build()), it is destroyed at
\* the end of the expression and the function is left with a dangling pointer.
Build(temporary) ==
  /\ pc = "strategy" /\ ~strat.built /\ strat.m_strategy # "unset"
  /\ strat' = [strat EXCEPT !.built = TRUE, !.alive = ~temporary]
  /\ UNCHANGED <<basev, m_mutex, m_stats_mutex, mgr, proc, eh, rec>>

\* the caller runs the failing operation and asks the strategy; it repeats
\* while the answer is Retrying
CallStrategy ==
  /\ pc = "strategy" /\ strat.built /\ ~strat.crashed
  /\ Len(strat.answers) < MaxAsks
  /\ AskAgain(strat.answers)
  /\ strat.alive
  /\ strat' = [strat EXCEPT !.answers = Append(@, strategy(strat))]
  /\ UNCHANGED <<basev, m_mutex, m_stats_mutex, mgr, proc, eh, rec>>

\* the same call through the dangling pointer: the members read are whatever
\* the dead builder's storage holds, or the read faults
CallStrategyDangling ==
  /\ pc = "strategy" /\ strat.built /\ ~strat.crashed
  /\ Len(strat.answers) < MaxAsks
  /\ AskAgain(strat.answers)
  /\ ~strat.alive
  /\ \/ \E answer \in Results : strat' = [strat EXCEPT !.answers = Append(@, answer)]
     \/ strat' = [strat EXCEPT !.crashed = TRUE]
  /\ UNCHANGED <<basev, m_mutex, m_stats_mutex, mgr, proc, eh, rec>>

NextStrategy ==
  \/ \E max_attempts \in 0..MaxRetries : BuilderRetry(max_attempts)
  \/ \E s \in {"Skip", "UseDefault", "Abort", "Continue"} : BuilderSet(s)
  \/ \E temporary \in BOOLEAN : Build(temporary)
  \/ CallStrategy
  \/ CallStrategyDangling

SpecStrategy == InitStrategy /\ [][NextStrategy]_vars

\* ---- BatchMemoryManager: the auto-shrink thread (src/src/memory/batch_memory_manager.cpp)
\* pc = "shrink".  The manager is shared (global_memory_manager() hands the same
\* object to every thread) and update_config is declared thread-safe in the
\* header, so NumCallers threads call it.  It takes no lock: every statement of
\* update_config, start_shrink_thread and stop_shrink_thread is a step of its own.
Workers == 1..MaxWorkers
Callers == 1..NumCallers

\* the shrink_worker threads that were started and have not returned
Live(m) == {w \in Workers : m.worker[w] \notin {"none", "done"}}

\* the lowest thread id not used yet, 0 when the bound is reached
FreshWorker(m) ==
  IF \E w \in Workers : m.worker[w] = "none"
  THEN CHOOSE w \in Workers : m.worker[w] = "none" /\ \A v \in 1..(w - 1) : m.worker[v] # "none"
  ELSE 0

\* the pipeline and the pool are not in use: only the object named by p acts
InitIdle(p) ==
  /\ cfg = CHOOSE c \in Configs : TRUE
  /\ input = <<>>
  /\ pool = PipelinePool(cfg.memory_pool_size)
  /\ reader = [t \in Threads |-> NoReader]
  /\ writer = [t \in Threads |-> FALSE]
  /\ seqPos = 0
  /\ output = <<>>
  /\ flight = <<>>
  /\ fc_stopped = FALSE
  /\ exc = "none"
  /\ pc = p
  /\ ctr = [total_reads_processed |-> 0, total_reads_passed |-> 0]
  /\ final_stats = ZeroStats
  /\ final_result = ZeroResult
  /\ parsed = <<>>
  /\ sinkLog = <<>>
  /\ started = {}
  /\ finished = {}
  /\ released = {}
  /\ errors = <<>>
  /\ calls = {}
  /\ NoRuns
  /\ NoExt
  /\ NoClients

InitShrink == InitIdle("shrink")

shrinkv == <<basev, m_mutex, m_stats_mutex, eh, rec, strat, proc>>

\* BatchMemoryManager(config), 150-163: no other thread has the object yet, so
\* the constructor is one step; start_shrink_thread finds the thread not joinable
Construct(enable) ==
  /\ pc = "shrink" /\ ~mgr.constructed
  /\ mgr' = [mgr EXCEPT !.constructed = TRUE,
                        !.enable_auto_shrink = enable,
                        !.m_shrink_thread = IF enable THEN 1 ELSE 0,
                        !.worker[1] = IF enable THEN "check" ELSE "none"]
  /\ UNCHANGED shrinkv

Usable == pc = "shrink" /\ mgr.constructed /\ ~mgr.terminated /\ ~mgr.destroyed

\* update_config, 201: bool was_auto_shrink = m_config.enable_auto_shrink
UpdateConfigRead(c, config) ==
  /\ Usable /\ ~mgr.destroying
  /\ mgr.caller[c].at = "idle"
  /\ mgr.calls < MaxMgrCalls
  /\ mgr' = [mgr EXCEPT !.calls = @ + 1,
                        !.caller[c] = [@ EXCEPT !.at = "write", !.config = config,
                                                !.was = mgr.enable_auto_shrink]]
  /\ UNCHANGED shrinkv

\* update_config, 202-209: m_config = config, then start or stop or neither
UpdateConfigWrite(c) ==
  /\ Usable
  /\ mgr.caller[c].at = "write"
  /\ LET me == mgr.caller[c]
         to == IF me.config /\ ~me.was THEN "start"
               ELSE IF ~me.config /\ me.was THEN "stop" ELSE "idle"
     IN mgr' = [mgr EXCEPT !.enable_auto_shrink = me.config,
                           !.caller[c].at = to,
                           !.restarted = IF to = "start" /\ mgr.stopped THEN TRUE ELSE @]
  /\ UNCHANGED shrinkv

\* start_shrink_thread, 234: if (!m_shrink_thread.joinable())
StartCheck(c) ==
  /\ Usable
  /\ mgr.caller[c].at = "start"
  /\ mgr' = [mgr EXCEPT !.caller[c].at = IF mgr.m_shrink_thread = 0 THEN "spawn" ELSE "idle"]
  /\ UNCHANGED shrinkv

\* start_shrink_thread, 236-237: m_stop_shrinking = false and the new
\* std::thread is constructed: shrink_worker starts running
StartSpawn(c) ==
  /\ Usable
  /\ mgr.caller[c].at = "spawn"
  /\ FreshWorker(mgr) # 0
  /\ mgr' = [mgr EXCEPT !.m_stop_shrinking = FALSE,
                        !.worker[FreshWorker(mgr)] = "check",
                        !.caller[c] = [@ EXCEPT !.at = "assign", !.made = FreshWorker(mgr)]]
  /\ UNCHANGED shrinkv

\* start_shrink_thread, 237: the move assignment to m_shrink_thread;
\* std::thread::operator= calls std::terminate when the target is joinable
StartAssign(c) ==
  /\ Usable
  /\ mgr.caller[c].at = "assign"
  /\ mgr' = IF mgr.m_shrink_thread # 0
            THEN [mgr EXCEPT !.terminated = TRUE]
            ELSE [mgr EXCEPT !.m_shrink_thread = mgr.caller[c].made,
                             !.caller[c].at = "idle"]
  /\ UNCHANGED shrinkv

\* stop_shrink_thread, 242-244: if joinable, m_stop_shrinking = true and join()
\* begins on the thread m_shrink_thread names
StopCheck(c) ==
  /\ pc = "shrink" /\ mgr.constructed /\ ~mgr.terminated
  /\ mgr.caller[c].at = "stop"
  /\ mgr' = IF mgr.m_shrink_thread # 0
            THEN [mgr EXCEPT !.m_stop_shrinking = TRUE,
                             !.caller[c] = [@ EXCEPT !.at = "join",
                                                     !.made = mgr.m_shrink_thread]]
            ELSE [mgr EXCEPT !.caller[c].at = "idle",
                             !.destroyed = mgr.destroying]
  /\ UNCHANGED shrinkv

\* stop_shrink_thread, 244: join() returns once shrink_worker has returned; the
\* std::thread is not joinable afterwards
StopJoin(c) ==
  /\ pc = "shrink" /\ mgr.constructed /\ ~mgr.terminated
  /\ mgr.caller[c].at = "join"
  /\ mgr.worker[mgr.caller[c].made] = "done"
  /\ mgr' = [mgr EXCEPT !.m_shrink_thread = 0,
                        !.caller[c].at = "idle",
                        !.stopped = TRUE,
                        !.shrinks = 0,
                        !.destroyed = mgr.destroying]
  /\ UNCHANGED shrinkv

\* ~BatchMemoryManager, 165-167: stop_shrink_thread(); the owner destroys the
\* manager when no call is in progress on it
Destroy(c) ==
  /\ Usable /\ ~mgr.destroying
  /\ \A d \in Callers : mgr.caller[d].at = "idle"
  /\ mgr' = [mgr EXCEPT !.destroying = TRUE, !.caller[c].at = "stop"]
  /\ UNCHANGED shrinkv

\* shrink_worker, 218: while (!m_stop_shrinking), then sleep_for(shrink_interval)
WorkerCheck(w) ==
  /\ pc = "shrink" /\ ~mgr.terminated
  /\ mgr.worker[w] = "check"
  /\ mgr' = [mgr EXCEPT !.worker[w] = IF mgr.m_stop_shrinking THEN "done" ELSE "sleeping"]
  /\ UNCHANGED shrinkv

\* shrink_worker, 219-223: the sleep ends; if (m_stop_shrinking) break
WorkerWake(w) ==
  /\ pc = "shrink" /\ ~mgr.terminated
  /\ mgr.worker[w] = "sleeping"
  /\ mgr' = [mgr EXCEPT !.worker[w] = IF mgr.m_stop_shrinking THEN "done" ELSE "optimize"]
  /\ UNCHANGED shrinkv

\* shrink_worker, 225-229: optimize(), which shrinks the batch pool
WorkerOptimize(w) ==
  /\ pc = "shrink" /\ ~mgr.terminated
  /\ mgr.worker[w] = "optimize"
  /\ mgr' = [mgr EXCEPT !.worker[w] = "check",
                        !.shrinks = Min(@ + 1, MaxShrinks)]
  /\ UNCHANGED shrinkv

NextShrink ==
  \/ \E e \in BOOLEAN : Construct(e)
  \/ \E c \in Callers, e \in BOOLEAN : UpdateConfigRead(c, e)
  \/ \E c \in Callers : UpdateConfigWrite(c)
  \/ \E c \in Callers : StartCheck(c)
  \/ \E c \in Callers : StartSpawn(c)
  \/ \E c \in Callers : StartAssign(c)
  \/ \E c \in Callers : StopCheck(c)
  \/ \E c \in Callers : StopJoin(c)
  \/ \E c \in Callers : Destroy(c)
  \/ \E w \in Workers : WorkerCheck(w)
  \/ \E w \in Workers : WorkerWake(w)
  \/ \E w \in Workers : WorkerOptimize(w)

SpecShrink == InitShrink /\ [][NextShrink]_vars

\* ---- several run() calls in one process (src/src/processing/tbb_processing_pipeline.cpp)
\* pc = "proc".  The worker threads of the TBB arena outlive a run, and so do
\* the thread_local static reader and writer of the serial filter bodies.  A
\* batch is one record here; a record is named by its file and its index.
Paths == {"a", "b"}
FileLen(path) == IF path = "a" THEN 2 ELSE 1

InitProc == InitIdle("proc")

procv == <<basev, m_mutex, m_stats_mutex, eh, rec, strat, mgr>>

\* setInput, setOutput and the start of run(), up to tbb::parallel_pipeline
ProcRun(in, out) ==
  /\ pc = "proc" /\ ~proc.running
  /\ proc.run < MaxProcRuns
  /\ proc' = [proc EXCEPT !.running = TRUE, !.run = @ + 1,
                          !.m_input_path = in, !.m_output_path = out,
                          !.stopped = FALSE, !.queue = <<>>,
                          !.read_log = <<>>, !.write_log = <<>>]
  /\ UNCHANGED procv

\* the input filter on thread t, 153-160: the thread_local reader is created on
\* m_input_path only if (!reader); then reader->read, fc.stop() at end of file
ProcParse(t) ==
  /\ pc = "proc" /\ proc.running /\ ~proc.stopped
  /\ Len(proc.queue) < MaxTokens
  /\ LET r == IF proc.reader[t] = NoHandle
              THEN [path |-> proc.m_input_path, pos |-> 0]
              ELSE proc.reader[t]
     IN IF r.pos < FileLen(r.path)
        THEN LET got == [path |-> r.path, index |-> r.pos + 1]
             IN proc' = [proc EXCEPT !.reader[t] = [r EXCEPT !.pos = @ + 1],
                                     !.queue = Append(@, got),
                                     !.read_log = Append(@, got)]
        ELSE proc' = [proc EXCEPT !.reader[t] = r, !.stopped = TRUE]
  /\ UNCHANGED procv

\* the output filter on thread t, 253-263: the thread_local writer is created on
\* m_output_path only if (!writer); then writer->write(*batch)
ProcSink(t) ==
  /\ pc = "proc" /\ proc.running
  /\ proc.queue # <<>>
  /\ LET w == IF proc.writer[t] = NoHandle
              THEN [path |-> proc.m_output_path, pos |-> 0]
              ELSE proc.writer[t]
     IN proc' = [proc EXCEPT !.writer[t] = w,
                             !.queue = Tail(@),
                             !.write_log = Append(@, [to |-> w.path, rec |-> Head(proc.queue)])]
  /\ UNCHANGED procv

\* tbb::parallel_pipeline has drained: run() returns its statistics
ProcReturn ==
  /\ pc = "proc" /\ proc.running /\ proc.stopped /\ proc.queue = <<>>
  /\ proc' = [proc EXCEPT !.running = FALSE]
  /\ UNCHANGED procv

NextProc ==
  \/ \E in \in Paths, out \in Paths : ProcRun(in, out)
  \/ \E t \in Threads : ProcParse(t)
  \/ \E t \in Threads : ProcSink(t)
  \/ ProcReturn

SpecProc == InitProc /\ [][NextProc]_vars

\* ------------------------------------------------------------ properties
RECURSIVE IsSubseq(_, _)
IsSubseq(s, t) ==
  IF s = <<>> THEN TRUE
  ELSE IF t = <<>> THEN FALSE
  ELSE IF Head(s) = Head(t) THEN IsSubseq(Tail(s), Tail(t))
  ELSE IsSubseq(s, Tail(t))

\* the input with the mutator chain applied to every record
MutatedInput == [i \in 1..Len(input) |-> ApplyMutators(cfg.mutators, input[i], 1)]

Appears(i) == \E j \in 1..Len(output) : output[j].name = i

\* batches past the input filter whose output filter has not run
InFlight == Len(parsed) - Len(sinkLog)

\* C1: the sink receives the batches in the order the parse stage emitted them,
\* and the output records are a subsequence, in input order, of the mutated input.
C1_OrderPreserved ==
  /\ \A k \in 1..Len(sinkLog) : sinkLog[k] = k - 1
  /\ IsSubseq(output, MutatedInput)

\* C2: when run returns, a record is in the output iff every predicate accepts
\* it, and every output record is the mutator chain applied, in list order, to
\* the input record of that name.
C2_ChainSemantics ==
  /\ \A j \in 1..Len(output) :
        output[j] = ApplyMutators(cfg.mutators, input[output[j].name], 1)
  /\ pc = "returned" =>
        \A i \in 1..Len(input) : Appears(i) <=> PassesAll(cfg.predicates, input[i])

C2_Witness ==
  /\ pc = "returned"
  /\ \E i \in 1..Len(input) : ~PassesAll(cfg.predicates, input[i])
  /\ \E j \in 1..Len(output) : output[j] # input[output[j].name]

\* C3: the batches emitted by the parse stage whose sink stage has not
\* completed never number more than max_tokens.
C3_TokenBound == InFlight <= cfg.max_tokens

C3_Witness ==
  /\ InFlight = cfg.max_tokens
  /\ cfg.max_tokens >= 2
  /\ ~fc_stopped /\ exc = "none"

\* C4: in-flight batches plus free batches never exceed the pool capacity.
C4_PoolCapacity == pool.m_active_count + pool.m_pool <= pool.m_max_size

\* C5: whenever run has returned or thrown, no batch is still counted in flight
\* by the pool.
C5_NoBatchInFlightAfterRun ==
  pc \in {"returned", "threw"} => pool.m_active_count = 0

\* C6: after run returns, total_reads = passed_reads + filtered_reads + error_reads.
C6_CounterCoherence ==
  pc = "returned" =>
    final_stats.total_reads =
      final_stats.passed_reads + final_stats.filtered_reads + final_stats.error_reads

C8_SequentialEquivalence ==
  (pc = "returned" /\ cfg.thread_count = 1) => output = SequentialOutput(cfg, input, 0)

AllBatches == 0..(Len(parsed) - 1)

\* C9: once the source reported end of file the input filter emits nothing
\* more; unless a stage fails, every emitted batch is transformed, written and
\* released and run returns; a started run always ends.
C9_GracefulDrain ==
  /\ [][fc_stopped => parsed' = parsed]_vars
  /\ [](pc = "returned" => /\ finished = AllBatches
                           /\ released = AllBatches
                           /\ Len(sinkLog) = Len(parsed))
  /\ (fc_stopped /\ exc = "none") ~> (pc = "returned" \/ exc # "none")
  /\ (pc = "running") ~> (pc \in {"returned", "threw"})

C9_Witness ==
  /\ pc = "returned"
  /\ Len(parsed) >= 2
  /\ released = AllBatches

\* C10: when run ends with an error, every batch whose transform had completed
\* was released to the pool.
C10_AbortReleasesFinished ==
  pc = "threw" => finished \subseteq released

\* C11: when the sink fails while writing a batch, run does not return
\* statistics as if it had succeeded but ends with the sink's error, and nothing
\* is written after the failure, so the batches written before it stay as written.
C11_SinkErrorReturned ==
  /\ [](exc = "sink" => pc # "returned")
  /\ [][exc = "sink" => output' = output]_vars

\* C12: the error a failed run ends with is the first exception any filter
\* body threw; exceptions thrown later do not replace it.
C12_FirstErrorWins ==
  /\ errors # <<>> => exc = errors[1]
  /\ pc = "threw" => errors # <<>>

C12_Witness ==
  /\ pc = "threw"
  /\ Len(errors) >= 2
  /\ errors[2] # errors[1]

\* input records that pass the predicates and on which a mutator reports failure
FailedRecords ==
  {i \in 1..Len(input) : /\ PassesAll(cfg.predicates, input[i])
                         /\ MutatorFails(cfg.mutators, input[i], 1)}

\* C13: a record on which a mutator reports failure does not appear in the
\* output and is counted once in the error counter; the run still returns.
C13_MutatorFailureDropsRecord ==
  pc = "returned" =>
    /\ \A i \in FailedRecords : ~Appears(i)
    /\ final_stats.error_reads = Cardinality(FailedRecords)

\* C14: in a run where a mutator fails on some record, whether any other
\* record appears in the output and the value it appears with depend on that
\* record alone: it appears iff it passes the predicates, and as the mutator
\* chain applied to it.
C14_FailureIsLocal ==
  (pc = "returned" /\ FailedRecords # {}) =>
    \A j \in (1..Len(input)) \ FailedRecords :
      /\ Appears(j) <=> PassesAll(cfg.predicates, input[j])
      /\ \A k \in 1..Len(output) :
            output[k].name = j => output[k] = ApplyMutators(cfg.mutators, input[j], 1)

C14_Witness ==
  /\ pc = "returned"
  /\ \E i \in FailedRecords : \E j \in 1..Len(input) :
        /\ j > i /\ j \notin FailedRecords
        /\ (i - 1) \div cfg.batch_size = (j - 1) \div cfg.batch_size
        /\ \E k \in 1..Len(output) : output[k].name = j /\ output[k] # input[j]

\* positions of the calls of one kind in the call sequence of one read
CallsOf(tr, kind) == {p \in 1..Len(tr) : tr[p].op = kind}

\* C15: every evaluate call is made on the record as read from the source and
\* before any process call on it; process is called only on records every
\* predicate accepted; rejected records never reach the output.
C15_PredicatesBeforeMutators ==
  /\ \A tr \in calls :
       /\ \A p \in CallsOf(tr, "evaluate") :
            /\ tr[p].arg = input[tr[p].arg.name]
            /\ \A q \in CallsOf(tr, "process") : p < q
       /\ CallsOf(tr, "process") # {} => PassesAll(cfg.predicates, input[tr[1].arg.name])
  /\ \A k \in 1..Len(output) : PassesAll(cfg.predicates, input[output[k].name])

C15_Witness ==
  /\ pc = "returned"
  /\ \E tr \in calls : \E q \in CallsOf(tr, "process") :
        /\ tr[q].arg # input[tr[q].arg.name]
        /\ \E k \in 1..Len(output) : output[k].name = tr[q].arg.name
  /\ \E tr \in calls : CallsOf(tr, "process") = {}

\* C16: the predicates are called in list order and no predicate is called on
\* a record after one that rejected it.
C16_ShortCircuitInOrder ==
  \A tr \in calls : \A p \in CallsOf(tr, "evaluate") :
    /\ tr[p].ord = p
    /\ \A q \in 1..(p - 1) : Evaluate(cfg.predicates[q], tr[q].arg)

C16_Witness ==
  \E tr \in calls :
    /\ Len(tr) = 1
    /\ Len(cfg.predicates) = 2
    /\ ~Evaluate(cfg.predicates[1], tr[1].arg)

\* batches the output filter has written
Written == {sinkLog[k] : k \in 1..Len(sinkLog)}

\* C17: a batch is released to the pool only after the sink has written it,
\* and once run has ended every batch the parse stage emitted has been released.
C17_ReleasedOnceAfterSink ==
  /\ released \subseteq Written
  /\ pc \in {"returned", "threw"} => released = AllBatches

\* C18: a batch sits in at most one place of the pipeline, is never both with a
\* stage and back in the pool, is worked on by exactly one transform worker
\* while it is being transformed and by none while it waits between stages.
C18_ExclusiveOwnership ==
  /\ \A i, j \in 1..Len(flight) : i # j => flight[i].seq # flight[j].seq
  /\ \A i \in 1..Len(flight) :
       LET b == flight[i]
       IN /\ b.seq \notin released
          /\ b.st = "parsed"    => b.thr = 0 /\ b.seq \notin started
          /\ b.st = "running"   => b.thr \in Threads /\ b.seq \in started \ finished
          /\ b.st = "processed" => b.thr = 0 /\ b.seq \in finished

C18_Witness ==
  /\ released # {}
  /\ \E i, j \in 1..Len(flight) :
       /\ flight[i].st = "running" /\ flight[j].st = "running"
       /\ flight[i].thr # flight[j].thr

Quiescent == rst = 0 /\ \A t \in Threads : ~InAcquire(t)

C21_TokenBudgetAtLeastTwo ==
  (cfg.impl = "tbb" /\ pc # "idle") => cfg.max_tokens >= 2

\* C22: with a thread budget of 1 or less the parallel pipeline is never set
\* up: no filter of it ever runs and no batch enters it.
C22_SequentialWhenOneWorker ==
  cfg.thread_count <= 1 => (pc # "running" /\ parsed = <<>>)

\* C23: when run returns after falling back from a failed parallel attempt,
\* the records the sink has received are exactly the records a run without
\* failure hands it, whatever the parallel attempt had already written.
C23_FallbackOutputIdentical ==
  (pc = "returned" /\ errors # <<>>) => output = SequentialOutput(cfg, input, 0)

\* batches a transform body is working on
Running == {i \in 1..Len(flight) : flight[i].st = "running"}

\* C24: never more than thread_count batches are in the transform stage at once.
C24_TransformParallelismBounded ==
  cfg.impl = "tbb" => Cardinality(Running) <= cfg.thread_count

\* C26: the statistics run never returns normally after its tally stage took a
\* batch whose first record is not of the inferred read length.
C26_VariableReadLengthFails ==
  pc = "returned" =>
    \A k \in started : Len(parsed[k + 1][1].base) = Attribution(input).read_length

\* C25: a merge of two accumulators that both hold reads and disagree on
\* read_length ends in an error, never in a merged accumulator.
C25_MergeRejectsLengthMismatch ==
  [][(/\ pc = "merge"
      /\ final_result.n_read > 0 /\ Head(flight).result.n_read > 0
      /\ final_result.read_length # Head(flight).result.read_length)
     => pc' # "merged"]_vars

\* C27: from the moment run is invoked until it ends, the performance counters
\* hold what this run has counted so far and nothing of an earlier run.
C27_NoCountersFromPriorRun ==
  pc \in {"entered", "checked", "piping"} =>
    m_stats.total_reads = (IF cfg.enable_statistics THEN run_reads ELSE 0)

\* C28: with enable_memory_pool = false a started run keeps going (the process is
\* not ended by the input filter), no batch is served from the pool (every batch
\* is a fresh allocation) and no batch is put back into the pool after the sink.
C28_NoPoolFreshBatches ==
  (~cfg.enable_memory_pool /\ pc # "idle") =>
     /\ pc # "crashed"
     /\ pool.m_hit_count = 0
     /\ pool.m_pool <= PipelinePool(cfg.memory_pool_size).m_pool

\* C29: when the first read of the input filter reports end of file (the input
\* holds no record), a run that has returned reports total_reads = 0 and has
\* constructed a FastQWriter on the output path, so that the output file exists.
C29_EmptyInputCreatesOutput ==
  (input = <<>> /\ pc = "returned") =>
     (final_stats.total_reads = 0 /\ \E t \in Threads : writer[t])

\* C30: once run has returned or thrown, no thread still holds an open FastQReader
\* on the input or an open FastQWriter on the output: whatever the run opened has
\* been closed before run was left, on the normal and on the failing path.
C30_ClosedBeforeReturn ==
  pc \in {"returned", "threw"} =>
     \A t \in Threads : reader[t] = NoReader /\ ~writer[t]

\* C31: the number of free batches held in the pool never exceeds m_max_size,
\* whatever acquire, release, expand, preallocate and shrink calls were made.
C31_FreeBatchesWithinMax == pc = "locks" => pool.m_pool <= pool.m_max_size

\* the thread holding the mutex that thread t waits for, 0 when t does not wait
WaitsFor(t) ==
  IF WantsMutex(t) /\ m_mutex # 0 THEN m_mutex
  ELSE IF WantsStatsMutex(t) /\ m_stats_mutex # 0 THEN m_stats_mutex
  ELSE 0

\* C37: the calls on one FqInfoBatchPool never deadlock: the threads waiting for
\* the two pool mutexes never wait in a circle.  Whenever a thread waits, the
\* holder of that mutex runs, or waits for the other mutex whose holder runs.
C37_NoDeadlock ==
  pc = "locks" =>
    \A t \in Threads :
       IF WaitsFor(t) = 0 THEN TRUE
       ELSE IF WaitsFor(WaitsFor(t)) = 0 THEN TRUE
       ELSE WaitsFor(WaitsFor(WaitsFor(t))) = 0

\* get_stats, holding m_stats_mutex, waits in pool_size for m_mutex, which a
\* thread inside another call holds
C37_Witness ==
  \E t \in Threads :
     /\ op[t] = "pool_size_lock" /\ m_stats_mutex = t
     /\ m_mutex \in Threads \ {t}

\* C32: handle_error invokes the handlers registered for the error's category in
\* registration order; it stops at the first one that returns true and returns
\* true; if none returns true (or none is registered) it has invoked all of them
\* and returns false; no handler of another category is invoked.
C32_HandlerChain ==
  eh.called =>
    LET hs    == eh.at_call[eh.error]
        trues == {k \in 1..Len(hs) : hs[k]}
    IN /\ \A j \in 1..Len(eh.invoked) : eh.invoked[j] = <<eh.error, j>>
       /\ IF trues # {}
          THEN eh.result /\ Len(eh.invoked) = (CHOOSE k \in trues : \A m \in trues : k <= m)
          ELSE ~eh.result /\ Len(eh.invoked) = Len(hs)

\* a call that skipped a later handler of its category after one returned true,
\* with a handler of the other category registered as well
C32_Witness ==
  /\ eh.called /\ eh.result
  /\ Len(eh.invoked) = 2 /\ Len(eh.at_call[eh.error]) = 3
  /\ \E c \in Categories \ {eh.error} : eh.m_handlers[c] # <<>>

\* the handler try_recover has to pick for the last call: the one registered for
\* the error code, else the one for the severity, else the default handler
Expected ==
  LET a == rec.at_call
  IN IF a.code_handlers[a.ex.code] # "none"
     THEN [kind |-> "code", handler |-> a.code_handlers[a.ex.code]]
     ELSE IF a.severity_handlers[a.ex.severity] # "none"
     THEN [kind |-> "severity", handler |-> a.severity_handlers[a.ex.severity]]
     ELSE [kind |-> "default", handler |-> a.default_handler]

\* C33: a try_recover call invokes exactly one recovery function, the one for the
\* exception's error code if registered, else the one for its severity, else the
\* default handler; it returns that function's result and adds exactly one to
\* total_attempts.
C33_OneHandlerPerCall ==
  rec.result # "none" =>
     /\ rec.invoked = <<Expected.kind>>
     /\ rec.result = CallRecovery(Expected.handler, rec.at_call.ex)
     /\ rec.stats.total_attempts = rec.at_call.attempts + 1

\* a call made with a handler for the code and a different one for the severity
C33_Witness ==
  /\ rec.result # "none"
  /\ rec.at_call.code_handlers[rec.at_call.ex.code] # "none"
  /\ rec.at_call.severity_handlers[rec.at_call.ex.severity] # "none"
  /\ rec.at_call.code_handlers[rec.at_call.ex.code]
       # rec.at_call.severity_handlers[rec.at_call.ex.severity]
  /\ rec.stats.total_attempts = 2

\* C40: total_attempts equals the sum of the five result counters
\* (successful, failed, skipped, retry, aborted), whatever the handlers return.
C40_AttemptsPartitioned ==
  rec.stats.total_attempts =
     rec.stats.successful_recoveries + rec.stats.failed_recoveries
     + rec.stats.skipped_operations + rec.stats.retry_attempts
     + rec.stats.aborted_operations

\* C38: a strategy built with retry(n, delay), asked through a builder that
\* still exists, answers Retrying at most n times for one failing operation, so
\* a caller that repeats the operation while the answer is Retrying comes to an
\* end.
C38_RetryBounded ==
  (strat.built /\ strat.alive /\ strat.m_strategy = "Retry") =>
     Len(SelectSeq(strat.answers, LAMBDA a : a = "Retrying")) <= strat.m_max_retries

\* C39: whenever stat works on a batch, every position below the batch's
\* read_length lies inside the base and quality strings of every read of the
\* batch, and every quality minus the offset lies in [0, MAX_QUAL).
C39_StatIndexesInRange ==
  cfg.impl = "stat" =>
    \A i \in 1..Len(flight) :
       flight[i].st = "running" =>
          /\ ~ReadsPastEnd(flight[i].reads)
          /\ \A r \in 1..Len(flight[i].reads) :
                Len(flight[i].reads[r].qual) >= Len(flight[i].reads[1].base)
          /\ ~QualOutsideTable(flight[i].reads, Attribution(input).qual_offset)

\* C34: within one run every invocation of the parse stage reads from the same
\* reader and every invocation of the sink stage writes to the same writer,
\* whichever thread executes the serial stage: at most one thread holds a
\* FastQReader, at most one holds a FastQWriter, and the parse stage returned
\* no more records than the input holds (each record is read once).
C34_OneReaderOneWriter ==
  (cfg.impl \in {"tbb", "legacy"} /\ pc \in {"running", "returned", "threw"}) =>
     /\ Cardinality({t \in Threads : reader[t] # NoReader}) <= 1
     /\ Cardinality({t \in Threads : writer[t]}) <= 1
     /\ SumSeq([i \in 1..Len(parsed) |-> Len(parsed[i])]) <= Len(input)

\* C36: at most one shrink_worker thread exists per BatchMemoryManager at any
\* time; once stop_shrink_thread or the destructor has returned with auto-shrink
\* off, no shrink_worker is left and no shrink runs; and when update_config has
\* switched enable_auto_shrink on again and returned, exactly one shrink_worker
\* is running, owned by m_shrink_thread, with m_stop_shrinking reset.
C36_OneShrinkThread ==
  pc = "shrink" =>
     /\ ~mgr.terminated
     /\ Cardinality(Live(mgr)) <= 1
     /\ (mgr.constructed /\ \A c \in Callers : mgr.caller[c].at = "idle") =>
           IF mgr.enable_auto_shrink /\ ~mgr.destroyed
           THEN /\ Live(mgr) = {mgr.m_shrink_thread}
                /\ ~mgr.m_stop_shrinking
           ELSE /\ Live(mgr) = {}
                /\ mgr.m_shrink_thread = 0
                /\ mgr.shrinks = 0

\* C35: every run of a process reads its own configured input from the
\* beginning and writes to its own configured output: each record a run read
\* comes from its m_input_path, the first one is the file's first record, a run
\* that returned has read at least the records of its input, and each record it
\* wrote went to its m_output_path.
C35_RunUsesOwnFiles ==
  pc = "proc" =>
     /\ \A i \in 1..Len(proc.read_log) : proc.read_log[i].path = proc.m_input_path
     /\ proc.read_log # <<>> => proc.read_log[1].index = 1
     /\ (proc.run > 0 /\ ~proc.running) =>
           Len(proc.read_log) >= FileLen(proc.m_input_path)
     /\ \A i \in 1..Len(proc.write_log) : proc.write_log[i].to = proc.m_output_path

====
